---- MODULE Spec2Model ----
(***************************************************************************)
(* Transport and session core of the ApertureDB node client                *)
(* (src/src/base.ts, lines 1..1202): the connection pool, the shared       *)
(* session with its 'session' mutex, the connect / handshake path, and the *)
(* retrying query engine; and the parallel query layer built on it         *)
(* (src/src/parallel.ts).                                                  *)
(*                                                                         *)
(* Node runs the program on one thread: an asynchronous call runs until it *)
(* awaits a socket event, a timer or the mutex.  An action of this model   *)
(* is one such event together with everything the resumed call does until  *)
(* it suspends again.  The program state is packed into a record S, the    *)
(* code is translated into operators from S to S, and each action unpacks  *)
(* the record the code produced.                                           *)
(***************************************************************************)
EXTENDS Integers, Sequences, FiniteSets, TLC

(* ---- bounds of the model ---- *)
(* ConcTasks concurrent callers making MaxCalls calls on a healthy        *)
(* network; one caller making one call under MaxFaults faults, or         *)
(* SeqCalls calls under SeqFaults faults; MaxSockets transport objects;   *)
(* MaxExpiries expiries of the session.  The pool on its own is offered   *)
(* PoolSockets transports and sees MaxPoolOps other operations, or is     *)
(* offered SweptSockets transports while MaxElapse sweep intervals pass,  *)
(* a session is stored and the pool is torn down.  The                    *)
(* clock stands still in Spec: its runs fit in one sweep interval.        *)
(* The singleton is followed over MaxPools pool objects and MaxClients    *)
(* client objects, Session.valid over session ages up to MaxAge tenths of *)
(* a second.  The parallel layer runs MaxEntries calls over MaxQueries    *)
(* queries by one caller, or over ConcQueries queries by MaxParCalls      *)
(* callers at once, with batches of maxBatchSize, maxConcurrentBatches    *)
(* batches per chunk and retryAttempts retries per query (the options of  *)
(* ParallelQueryOptions, set below their defaults of 10, 5 and 3).        *)
(* The frame reader reads MaxReads times from a stream of one or two      *)
(* frames with bodies of up to MaxBody bytes, cut into chunks anywhere.   *)
MaxTasks == 3
ConcTasks == 2
MaxSockets == 4
MaxFaults == 4
MaxCalls == 3
SeqCalls == 2
SeqFaults == 1
MaxExpiries == 1
MaxPools == 3
MaxClients == 3
MaxAge == 510
MaxQueries == 3
MaxParCalls == 2
MaxEntries == 3
ConcQueries == 1
maxBatchSize == 2
maxConcurrentBatches == 1
retryAttempts == 1
MaxBody == 2
MaxReads == 2
PoolSockets == 6
MaxPoolOps == 2
MaxElapse == 3
SweptSockets == 3
RenewCalls == 2
RenewFaults == 3
FullSockets == 8
FullFaults == 1
SharedCalls == 3
SharedFaults == 1
SharedSockets == 3

(* ---- program constants ---- *)
(* maxIdleTime is 60000 ms, counted here in sweep intervals of 30000 ms.  *)
maxPoolSize == 5
maxIdleTime == 2
maxRetries == 3
TicksPerSecond == 10
prefixLength == 4

Tasks == 1..MaxTasks
NoTask == 0
NoSocket == 0
Clients == {"A", "B"}
Keys == {"k1", "k2"}
NoPool == 0
ClientObjects == 1..MaxClients
NoClient == 0
NoSharedData == [session |-> NoClient, lock |-> NoClient]
Queries == 1..MaxQueries
CallIds == 1..MaxParCalls
NoVal == [q |-> 0, n |-> 0]
NoOutcome == [k |-> "none", v |-> NoVal]
NewQuery == [executed |-> FALSE, response |-> NoVal, error |-> NoVal]
Idle ==
  [st |-> "idle", attempt |-> 0, n |-> 0, lastError |-> NoVal,
   after |-> FALSE, sent |-> 0, val |-> NoVal]
NoCall ==
  [kind |-> "none", pc |-> "idle", i |-> 0, len |-> 0, responses |-> <<>>,
   errors |-> <<>>, outs |-> [q \in Queries |-> NoOutcome]]
NoReader ==
  [listening |-> FALSE, lengthBuffer |-> <<>>, messageBuffer |-> <<>>,
   messageLength |-> -1, bytesRead |-> 0, chunks |-> 0, got |-> 0]
NotAsked == [asked |-> FALSE, age |-> 0, result |-> FALSE]
NoSession == [live |-> FALSE, isValid |-> FALSE]
NoRet == [k |-> "none", v |-> "none"]
NoCache == <<>>

VARIABLES
  pool,               \* ConnectionPool.pool: key -> list of PooledSocket
  sock,               \* state of every transport object
  wire,               \* per transport: requests written and not yet answered
  now,                \* Date.now(), in units of the 30 s sweep interval
  session,            \* SharedData.session
  lockHolder,         \* task that holds the 'session' key of SharedData.lock
  lockQueue,          \* tasks queued on the 'session' key, in arrival order
  socket,             \* BaseClient.socket
  connected,          \* BaseClient.connected
  authenticated,      \* BaseClient.authenticated
  shouldAuthenticate, \* BaseClient.shouldAuthenticate
  queryComplete,      \* BaseClient.queryComplete
  useSsl,             \* config.useSsl
  stack,              \* per task: the chain of pending asynchronous calls
  ret,                \* per task: the settled value of the promise it awaits
  faults,             \* environment faults so far
  calls,              \* API calls started so far
  limits,             \* the budget of the run: tasks, calls and faults
  expiries,           \* session expiries so far
  refreshes,          \* RefreshToken requests written so far
  poolOps,            \* direct pool operations so far (pool specification)
  cleanupInterval,    \* ConnectionPool.cleanupInterval: the sweep timer is set
  messageCache,       \* per client: BaseClient.messageCache, key -> buffer
  authOn,             \* per client: the transport of its last accepted
                      \* Authenticate since its last connect (observer)
  ev,                 \* what the code did during the last action (observer)
  instance,           \* ConnectionPool.instance (static)
  poolsMade,          \* ConnectionPool objects constructed so far
  poolData,           \* per ConnectionPool object: its sharedData field
  connectionPool,     \* BaseClient.connectionPool, per constructed client
  dateNow,            \* Date.now(), in tenths of a second
  sessionStarted,     \* Session.sessionStarted, in tenths of a second
  sessionTokenTtl,    \* Session.sessionTokenTtl, in seconds
  expiryOffset,       \* SESSION_EXPIRY_OFFSET_SEC as parsed, in seconds
  validCall,          \* the last call of Session.valid(): its age and answer
  pq,                 \* per ParallelQuery: executed, response, error
  engineCalls,        \* per ParallelQuery: client.query calls made for it
  act,                \* per call and query: the pending ParallelQuery.execute
  pcall,              \* per call: the pending entry point of parallel.ts
  isExecuting,        \* Parallelizer.isExecuting
  first,              \* per ParallelQuery: the first outcome it finished with
  entries,            \* entry-point calls made so far
  plimits,            \* the budget of the run: callers, queries and calls
  qev,                \* ParallelQuery.execute calls settled by the last action
  cev,                \* entry-point calls settled by the last action
  stream,             \* bytes the peer has written that have not arrived yet
  sent,               \* the frame bodies the peer wrote, in order
  arrived,            \* bytes that have arrived so far
  missed,             \* bytes that arrived while no read was listening
  reader,             \* the closure of the pending _recvMsg call
  results,            \* the settled _recvMsg calls, in order
  frConnected,        \* BaseClient.connected of the reading client
  frSock              \* the read side of its transport

clientVars == <<pool, sock, wire, now, session, lockHolder, lockQueue, socket,
                connected, authenticated, shouldAuthenticate, queryComplete,
                useSsl, stack, ret, faults, calls, expiries, refreshes,
                poolOps, cleanupInterval, messageCache, authOn, limits,
                ev>>

instanceVars == <<instance, poolsMade, poolData, connectionPool>>

sessionVars == <<dateNow, sessionStarted, sessionTokenTtl, expiryOffset,
                 validCall>>

parallelVars == <<pq, engineCalls, act, pcall, isExecuting, first, entries,
                  plimits, qev, cev>>

frameVars == <<stream, sent, arrived, missed, reader, results, frConnected,
               frSock>>

vars == <<clientVars, instanceVars, sessionVars, parallelVars, frameVars>>

Pack ==
  [pool |-> pool, sock |-> sock, wire |-> wire, now |-> now,
   session |-> session, lockHolder |-> lockHolder, lockQueue |-> lockQueue,
   socket |-> socket, connected |-> connected,
   authenticated |-> authenticated,
   shouldAuthenticate |-> shouldAuthenticate,
   queryComplete |-> queryComplete, useSsl |-> useSsl,
   stack |-> stack, ret |-> ret, faults |-> faults, calls |-> calls,
   expiries |-> expiries, refreshes |-> refreshes, poolOps |-> poolOps,
   cleanupInterval |-> cleanupInterval, messageCache |-> messageCache,
   authOn |-> authOn, ev |-> {}, over |-> FALSE]

Unpack(S) ==
  /\ pool' = S.pool
  /\ sock' = S.sock
  /\ wire' = S.wire
  /\ now' = S.now
  /\ session' = S.session
  /\ lockHolder' = S.lockHolder
  /\ lockQueue' = S.lockQueue
  /\ socket' = S.socket
  /\ connected' = S.connected
  /\ authenticated' = S.authenticated
  /\ shouldAuthenticate' = S.shouldAuthenticate
  /\ queryComplete' = S.queryComplete
  /\ useSsl' = S.useSsl
  /\ stack' = S.stack
  /\ ret' = [t \in Tasks |-> IF S.stack[t] = <<>> THEN NoRet ELSE S.ret[t]]
  /\ faults' = S.faults
  /\ calls' = S.calls
  /\ UNCHANGED limits
  /\ expiries' = S.expiries
  /\ poolOps' = S.poolOps
  /\ cleanupInterval' = S.cleanupInterval
  /\ messageCache' = S.messageCache
  /\ authOn' = S.authOn
  /\ refreshes' = S.refreshes
  /\ ev' = S.ev
  /\ UNCHANGED <<instanceVars, sessionVars, parallelVars, frameVars>>

Min(set) == CHOOSE x \in set : \A y \in set : x <= y

(* ======================= transports ==================================== *)
(* sock[s]: "unused" (object not yet created), "connecting", "open",       *)
(* "closed" (the peer ended the stream), "reset" (destroyed by a socket    *)
(* error), "destroyed" (destroyed by this process).                        *)

writable(S, s) == S.sock[s] \in {"connecting", "open"}

readable(S, s) == S.sock[s] \in {"connecting", "open"}

destroyed(S, s) == S.sock[s] \in {"reset", "destroyed"}

socketDestroy(S, s) ==
  IF s = NoSocket \/ S.sock[s] = "reset"
  THEN S
  ELSE [S EXCEPT !.sock[s] = "destroyed", !.wire[s] = <<>>]

(* ======================= ConnectionPool ================================ *)

IndexOf(conns, s) ==
  LET idx == {i \in 1..Len(conns) : conns[i].socket = s}
  IN IF idx = {} THEN 0 ELSE Min(idx)

UsableWhenBusy(S, conn) ==
  /\ writable(S, conn.socket)
  /\ ~destroyed(S, conn.socket)

Usable(S, conn) ==
  /\ ~conn.busy
  /\ writable(S, conn.socket)
  /\ ~destroyed(S, conn.socket)

getConnection(S, key) ==
  LET conns == S.pool[key]
      idx == {i \in 1..Len(conns) : Usable(S, conns[i])}
  IN IF idx = {} THEN NoSocket ELSE conns[Min(idx)].socket

HasRoomWhenFull(conns) == Len(conns) <= maxPoolSize

HasRoom(conns) == Len(conns) < maxPoolSize

addConnection(S, key, s) ==
  IF HasRoom(S.pool[key])
  THEN [S EXCEPT !.pool[key] =
          Append(@, [socket |-> s, lastUsed |-> S.now, busy |-> FALSE])]
  ELSE socketDestroy(S, s)

markBusy(S, key, s, busy) ==
  LET i == IndexOf(S.pool[key], s)
  IN IF i = 0
     THEN S
     ELSE [S EXCEPT !.pool[key][i] =
             [socket |-> s, lastUsed |-> S.now, busy |-> busy]]

Splice(conns, i) ==
  [j \in 1..(Len(conns) - 1) |-> IF j < i THEN conns[j] ELSE conns[j + 1]]

removeConnection(S, key, s) ==
  LET i == IndexOf(S.pool[key], s)
  IN IF i = 0
     THEN S
     ELSE [socketDestroy(S, s) EXCEPT !.pool[key] = Splice(S.pool[key], i)]

SweptBusyToo(S, conn) ==
  LET idle == S.now - conn.lastUsed > maxIdleTime
      invalid == ~writable(S, conn.socket) \/ destroyed(S, conn.socket)
  IN idle \/ invalid

Swept(S, conn) ==
  LET idle == S.now - conn.lastUsed > maxIdleTime
      invalid == ~writable(S, conn.socket) \/ destroyed(S, conn.socket)
  IN (idle /\ ~conn.busy) \/ invalid

RECURSIVE DestroyAll(_, _)
DestroyAll(S, set) ==
  IF set = {}
  THEN S
  ELSE LET s == Min(set) IN DestroyAll(socketDestroy(S, s), set \ {s})

cleanup(S) ==
  LET gone == {conn.socket : conn \in
                 UNION {{S.pool[k][i] : i \in {j \in 1..Len(S.pool[k]) :
                                                 Swept(S, S.pool[k][j])}} :
                        k \in Keys}}
      kept(k) == SelectSeq(S.pool[k], LAMBDA conn : ~Swept(S, conn))
  IN [DestroyAll(S, gone) EXCEPT !.pool = [k \in Keys |-> kept(k)]]

Pooled(S) ==
  UNION {{S.pool[k][i].socket : i \in 1..Len(S.pool[k])} : k \in Keys}
    \ {NoSocket}

(* ConnectionPool.destroy that spares the transports in use *)
poolDestroyIdleOnly(S) ==
  LET idle == {s \in Pooled(S) :
                 \E k \in Keys : \E i \in 1..Len(S.pool[k]) :
                   S.pool[k][i].socket = s /\ ~S.pool[k][i].busy}
  IN [DestroyAll(S, idle) EXCEPT !.cleanupInterval = FALSE,
                                 !.pool = [k \in Keys |-> <<>>],
                                 !.session = NoSession]

(* ConnectionPool.destroy *)
poolDestroy(S) ==
  [DestroyAll(S, Pooled(S)) EXCEPT !.cleanupInterval = FALSE,
                                   !.pool = [k \in Keys |-> <<>>],
                                   !.session = NoSession]


(* ======================= call frames =================================== *)
(* A frame is one pending asynchronous call: fn the function, pc the await *)
(* it is at, c the client (this), kind the query it carries, rc the local  *)
(* retryCount, s the transport its pending read or write captured, cand    *)
(* the pooled candidate, err the error it caught, done whether the current *)
(* attempt produced a complete response.                                   *)

poolKey(c) == "k1"

NewFrame(fn, c, kind) ==
  [fn |-> fn, pc |-> "start", c |-> c, kind |-> kind, rc |-> 0,
   s |-> NoSocket, cand |-> NoSocket, err |-> "none", errs |-> 0,
   done |-> FALSE]

Top(S, t) == S.stack[t][Len(S.stack[t])]

SetTop(S, t, f) == [S EXCEPT !.stack[t][Len(S.stack[t])] = f, !.ret[t] = NoRet]

Goto(S, t, pc) == SetTop(S, t, [Top(S, t) EXCEPT !.pc = pc])

Call(S, t, pc, frame) ==
  LET S1 == Goto(S, t, pc)
  IN [S1 EXCEPT !.stack[t] = Append(@, frame)]

Pop(S, t) == [S EXCEPT !.stack[t] = SubSeq(@, 1, Len(@) - 1)]

Return(S, t, v) == [Pop(S, t) EXCEPT !.ret[t] = [k |-> "ok", v |-> v]]

Throw(S, t, e) == [Pop(S, t) EXCEPT !.ret[t] = [k |-> "throw", v |-> e]]

Settle(S, t, k, v) == [S EXCEPT !.ret[t] = [k |-> k, v |-> v]]

(* Observer: a record of what the code just did, with the state of the    *)
(* transport tr right after it.                                            *)
Observe(S, type, t, f, tr, a, b) ==
  LET conns == S.pool[poolKey(f.c)]
      i == IndexOf(conns, tr)
  IN [S EXCEPT !.ev = @ \cup
        {[type |-> type, t |-> t, kind |-> f.kind, rc |-> f.rc,
          errs |-> f.errs, err |-> f.err, done |-> f.done, tr |-> tr,
          a |-> a, b |-> b,
          inPool |-> tr # NoSocket /\ i # 0,
          busy |-> tr # NoSocket /\ i # 0 /\ conns[i].busy,
          dead |-> tr # NoSocket /\ S.sock[tr] \in {"reset", "destroyed"},
          cleared |-> S.socket[f.c] = NoSocket,
          connected |-> S.connected[f.c],
          authenticated |-> S.authenticated[f.c],
          should |-> S.shouldAuthenticate[f.c],
          live |-> S.session.live,
          held |-> S.lockHolder = t,
          authOn |-> S.authOn[f.c]]}]

IoPcs == {"queued", "tcp", "tls", "send", "recv", "sleep", "closing"}

Suspended(S, t) ==
  \/ S.stack[t] = <<>>
  \/ S.over
  \/ (Top(S, t).pc \in IoPcs /\ S.ret[t].k = "none")

(* ======================= SharedData.lock (AsyncLock) =================== *)
(* lock.acquire('session', fn): fn runs at once when the key is free, else *)
(* the caller is queued; when fn settles, the head of the queue runs.      *)

LockFreeAlways(S) == TRUE

LockFree(S) == S.lockHolder = NoTask

acquire(S, t) ==
  IF LockFree(S)
  THEN [Goto(S, t, "locked") EXCEPT !.lockHolder = t]
  ELSE [Goto(S, t, "queued") EXCEPT !.lockQueue = Append(@, t)]

release(S) ==
  IF S.lockQueue = <<>>
  THEN [S EXCEPT !.lockHolder = NoTask]
  ELSE LET n == Head(S.lockQueue)
       IN [S EXCEPT !.lockHolder = n,
                    !.lockQueue = Tail(@),
                    !.stack[n][Len(S.stack[n])].pc = "locked"]

(* ======================= _sendMsg / _recvMsg =========================== *)

_sendMsg(S, t) ==
  LET f == Top(S, t)
      s == S.socket[f.c]
  IN IF s = NoSocket
     THEN Settle(Goto(S, t, "send"), t, "throw", "NotConnected")
     ELSE IF ~writable(S, s) \/ destroyed(S, s)
     THEN Settle([Goto(S, t, "send") EXCEPT !.connected[f.c] = FALSE],
                 t, "throw", "SocketInvalid")
     ELSE SetTop(S, t, [f EXCEPT !.pc = "send", !.s = s])

_recvMsg(S, t) ==
  LET f == Top(S, t)
      s == S.socket[f.c]
  IN IF s = NoSocket
     THEN Settle(Goto(S, t, "recv"), t, "throw", "NotConnected")
     ELSE IF ~readable(S, s) \/ destroyed(S, s)
     THEN Settle([Goto(S, t, "recv") EXCEPT !.connected[f.c] = FALSE],
                 t, "throw", "SocketInvalid")
     ELSE SetTop(S, t, [f EXCEPT !.pc = "recv", !.s = s])

(* ======================= Session ======================================= *)

SessionNotStored == [live |-> FALSE, isValid |-> FALSE]

NewSession == [live |-> TRUE, isValid |-> TRUE]

valid(sess) == sess.isValid

NeedsRefreshWheneverLive(S) == S.session.live

NeedsRefresh(S) == S.session.live /\ ~valid(S.session)

(* ======================= BaseClient.connect / _connect ================= *)

peerAuthorized == TRUE

connect(S, t) ==
  LET f == Top(S, t)
      r == S.ret[t]
      c == f.c
  IN CASE f.pc = "start" ->
            Call([S EXCEPT !.connected[c] = FALSE,
                           !.authenticated[c] = FALSE,
                           !.shouldAuthenticate[c] = FALSE],
                 t, "wait", NewFrame("_connect", c, "hs"))
       [] f.pc = "wait" ->
            IF r.k = "throw"
            THEN Throw(S, t, r.v)
            ELSE Return([S EXCEPT !.shouldAuthenticate[c] = TRUE], t, "ok")

discardSocket(S, c) ==
  IF S.socket[c] # NoSocket
  THEN [socketDestroy(removeConnection(S, poolKey(c), S.socket[c]),
                      S.socket[c])
          EXCEPT !.socket[c] = NoSocket]
  ELSE S

connectCatch(S, t, e) ==
  LET f == Top(S, t)
      c == f.c
      S1 == [discardSocket(S, c) EXCEPT !.connected[c] = FALSE]
  IN Throw(Observe(S1, "connectFailed", t, f, f.s, e, "none"), t, e)

newSocket(S, t) ==
  LET f == Top(S, t)
      free == {s \in DOMAIN S.sock : S.sock[s] = "unused"}
  IN IF free = {}
     THEN [S EXCEPT !.over = TRUE]
     ELSE LET s == Min(free)
          IN SetTop([S EXCEPT !.sock[s] = "connecting", !.socket[f.c] = s],
                    t, [f EXCEPT !.pc = "tcp", !.s = s])

connectFinish(S, t) ==
  LET c == Top(S, t).c
      S1 == [S EXCEPT !.connected[c] = TRUE]
      S2 == addConnection(S1, poolKey(c), S1.socket[c])
  IN IF S.socket[c] = NoSocket /\ ~HasRoom(S.pool[poolKey(c)])
     THEN connectCatch(S1, t, "TypeError")
     ELSE Return(Observe([markBusy(S2, poolKey(c), S2.socket[c], TRUE)
                            EXCEPT !.authOn[c] = NoSocket],
                         "connected", t, Top(S, t), S2.socket[c],
                         "new", "none"), t, "ok")

tlsUpgrade(S, t) ==
  LET f == Top(S, t)
      s == S.socket[f.c]
  IN IF s = NoSocket
     THEN connectCatch(S, t, "TlsFail")
     ELSE SetTop(S, t, [f EXCEPT !.pc = "tls", !.s = s])

(* the handshake reply: version and mode read from the first 8 bytes.   *)
(* "hs_ok" carries the client's version and the requested mode,           *)
(* "hs_version" another version with the requested mode, "hs_mode"        *)
(* another mode; any other reply is too short to hold both fields.        *)
readHandshake(v) ==
  CASE v \in {"hs_ok", "hs_version"} -> "none"
    [] v = "hs_mode" -> "ProtocolRejected"
    [] OTHER -> "RangeError"

(* the catch around the reading of the reply *)
handshakeCatch(e) == IF e = "none" THEN "none" ELSE "InvalidHandshake"

_connect(S, t) ==
  LET f == Top(S, t)
      r == S.ret[t]
      c == f.c
      key == poolKey(c)
  IN CASE f.pc = "start" ->
            LET cand == getConnection(S, key)
            IN IF cand # NoSocket
               THEN Call(SetTop(S, t, [f EXCEPT !.cand = cand]), t, "validate",
                         [NewFrame("validateConnection", c, "ping")
                            EXCEPT !.cand = cand])
               ELSE newSocket(S, t)
       [] f.pc = "validate" ->
            IF r.v = "true"
            THEN Return(Observe(markBusy(Observe([S EXCEPT
                                                    !.socket[c] = f.cand,
                                                    !.connected[c] = TRUE],
                                                 "reuse", t, f, f.cand,
                                                 "none", "none"),
                                         key, f.cand, TRUE),
                                "connected", t, f, f.cand, "pooled", "none"),
                        t, "ok")
            ELSE newSocket(removeConnection(S, key, f.cand), t)
       [] f.pc = "tcp" ->
            IF r.k = "throw"
            THEN connectCatch(S, t, r.v)
            ELSE _sendMsg(S, t)
       [] f.pc = "send" ->
            IF r.k = "throw"
            THEN connectCatch(S, t, r.v)
            ELSE _recvMsg(S, t)
       [] f.pc = "recv" ->
            IF r.k = "throw"
            THEN connectCatch(S, t, r.v)
            ELSE IF r.v = "null"
            THEN connectCatch(S, t, "NoHandshake")
            ELSE LET e == handshakeCatch(readHandshake(r.v))
                     S1 == Observe(S, "handshake", t, f, f.s, r.v, e)
                 IN IF e # "none"
                    THEN connectCatch(S1, t, e)
                    ELSE IF S.useSsl
                    THEN tlsUpgrade(S1, t)
                    ELSE connectFinish(S1, t)
       [] f.pc = "tls" ->
            IF r.k = "throw"
            THEN connectCatch(S, t, r.v)
            ELSE connectFinish([S EXCEPT !.socket[c] = f.s,
                                         !.connected[c] = TRUE], t)

(* ======================= BaseClient.validateConnection ================= *)
(* The probe names the candidate (cand); _sendMsg and _recvMsg use         *)
(* this.socket.                                                            *)

validateFinally(S, t) ==
  LET f == Top(S, t)
  IN IF ~S.queryComplete[f.c]
     THEN socketDestroy(removeConnection(S, poolKey(f.c), f.cand), f.cand)
     ELSE S

validateConnection(S, t) ==
  LET f == Top(S, t)
      r == S.ret[t]
      c == f.c
      done == [S EXCEPT !.queryComplete[c] = TRUE]
  IN CASE f.pc = "start" ->
            IF ~writable(S, f.cand) \/ destroyed(S, f.cand)
                 \/ S.sock[f.cand] = "connecting"
            THEN Return(S, t, "false")
            ELSE IF S.useSsl /\ ~peerAuthorized
            THEN Return(S, t, "false")
            ELSE _sendMsg([S EXCEPT !.queryComplete[c] = FALSE], t)
       [] f.pc = "send" ->
            IF r.k = "throw"
            THEN Return(validateFinally(S, t), t, "false")
            ELSE _recvMsg(S, t)
       [] f.pc = "recv" ->
            IF r.k = "throw" \/ r.v = "garbage"
            THEN Return(validateFinally(S, t), t, "false")
            ELSE IF r.v \in {"null", "empty", "ping_ok"}
            THEN Return(validateFinally(
                          Observe(done, "probe", t, f, f.cand, "true",
                                  IF f.s = f.cand THEN "candidate"
                                                  ELSE "other"), t),
                        t, "true")
            ELSE Return(validateFinally(done, t), t, "false")

(* ======================= _authenticate / _refreshToken ================= *)

authenticateCatch(S, t, e) ==
  LET c == Top(S, t).c
  IN Throw([S EXCEPT !.authenticated[c] = FALSE,
                     !.shouldAuthenticate[c] = TRUE], t, e)

_authenticate(S, t) ==
  LET f == Top(S, t)
      r == S.ret[t]
      c == f.c
  IN CASE f.pc = "start" ->
            Call(S, t, "q", NewFrame("_query", c, "auth"))
       [] f.pc = "q" ->
            IF r.k = "throw"
            THEN authenticateCatch(S, t, r.v)
            ELSE IF r.v \notin {"auth_ok", "auth_fail"}
            THEN authenticateCatch(S, t, "BadResponse")
            ELSE LET S1 == Observe(S, "status", t, f, NoSocket, r.v,
                                   S.stack[t][Len(S.stack[t]) - 1].fn)
                 IN IF r.v = "auth_fail"
                    THEN authenticateCatch(S1, t, "AuthFail")
                    ELSE Return([S1 EXCEPT !.session = NewSession,
                                           !.authenticated[c] = TRUE,
                                           !.shouldAuthenticate[c] = FALSE],
                                t, "ok")

_refreshToken(S, t) ==
  LET f == Top(S, t)
      r == S.ret[t]
      c == f.c
  IN CASE f.pc = "start" ->
            IF ~S.session.live
            THEN Return(S, t, "ok")
            ELSE Call(S, t, "q", NewFrame("_query", c, "refresh"))
       [] f.pc = "q" ->
            IF r.k = "throw"
            THEN Throw(S, t, r.v)
            ELSE IF r.v = "null"
            THEN Throw(S, t, "Unauthorized")
            ELSE IF r.v = "ref_ok"
            THEN Return([S EXCEPT !.session = NewSession], t, "ok")
            ELSE IF r.v = "ref_fail"
            THEN Call([S EXCEPT !.authenticated[c] = FALSE,
                                !.shouldAuthenticate[c] = TRUE,
                                !.session = NoSession],
                      t, "reauth", NewFrame("authenticate", c, "none"))
            ELSE Throw(S, t, "TypeError")
       [] f.pc = "reauth" ->
            IF r.k = "throw"
            THEN Throw(S, t, r.v)
            ELSE Throw(S, t, "Unauthorized")

(* ======================= authenticate / ensureAuthenticated ============ *)

authenticate(S, t) ==
  LET f == Top(S, t)
      r == S.ret[t]
      c == f.c
  IN CASE f.pc = "start" -> acquire(S, t)
       [] f.pc = "locked" ->
            IF ~S.authenticated[c]
            THEN IF ~S.session.live
                 THEN Call(S, t, "auth", NewFrame("_authenticate", c, "none"))
                 ELSE Return(release([S EXCEPT !.authenticated[c] = TRUE]),
                             t, "ok")
            ELSE Return(release(S), t, "ok")
       [] f.pc = "auth" ->
            IF r.k = "throw"
            THEN Throw(release(S), t, r.v)
            ELSE Return(release([S EXCEPT !.authenticated[c] = TRUE]),
                        t, "ok")

resetOnFailure(S, c) ==
  [S EXCEPT !.connected[c] = FALSE,
            !.authenticated[c] = FALSE,
            !.shouldAuthenticate[c] = TRUE]

(* if (!this.authenticated || this.shouldAuthenticate) *)
needsAuthenticate(S, c) == ~S.authenticated[c] \/ S.shouldAuthenticate[c]

ensureAuthCheck(S, t) ==
  LET c == Top(S, t).c
  IN IF needsAuthenticate(S, c)
     THEN Call(S, t, "auth", NewFrame("_authenticate", c, "none"))
     ELSE IF NeedsRefresh(S)
     THEN Call(S, t, "refresh", NewFrame("_refreshToken", c, "none"))
     ELSE Return(release(S), t, "ok")

ensureAuthenticated(S, t) ==
  LET f == Top(S, t)
      r == S.ret[t]
      c == f.c
  IN CASE f.pc = "start" -> acquire(S, t)
       [] f.pc = "locked" ->
            IF ~S.connected[c]
            THEN Call(S, t, "conn", NewFrame("connect", c, "none"))
            ELSE ensureAuthCheck(S, t)
       [] f.pc = "conn" ->
            IF r.k = "throw"
            THEN Throw(release(S), t, r.v)
            ELSE ensureAuthCheck(S, t)
       [] f.pc \in {"auth", "refresh"} ->
            IF r.k = "throw"
            THEN Throw(release(Observe(resetOnFailure(S, c), "ensured", t, f,
                                       NoSocket, "throw", r.v)), t, r.v)
            ELSE Return(release(Observe(S, "ensured", t, f, NoSocket,
                                        "return", f.pc)), t, "ok")

(* ======================= BaseClient._query ============================= *)

LoopCond(rc) == rc <= maxRetries

RetryAllowedOnLast(rc) == rc <= maxRetries

RetryAllowed(rc) == rc < maxRetries

(* the catch block's test of the error message *)
Matches(e) == e \in {"ECONNRESET", "TlsFail"}

queryFinally(S, t) ==
  LET f == Top(S, t)
      c == f.c
      tr == IF f.s # NoSocket THEN f.s ELSE S.socket[c]
      S1 == IF S.socket[c] = NoSocket
            THEN S
            ELSE IF S.queryComplete[c]
            THEN markBusy(S, poolKey(c), S.socket[c], FALSE)
            ELSE [discardSocket(S, c) EXCEPT !.connected[c] = FALSE]
  IN Observe(S1, "finally", t, f, tr, "none", "none")

queryReturn(S, t, v) ==
  LET f == Top(S, t)
      S1 == queryFinally(S, t)
  IN Return(Observe(S1, "exit", t, f, NoSocket, "return", v), t, v)

queryThrow(S, t, e) ==
  LET f == Top(S, t)
      S1 == queryFinally(S, t)
  IN Throw(Observe(S1, "exit", t, f, NoSocket, "throw", e), t, e)

queryComplete_(S, t, v) ==
  LET f == Top(S, t)
  IN queryReturn(SetTop([S EXCEPT !.queryComplete[f.c] = TRUE], t,
                        [f EXCEPT !.done = TRUE]), t, v)

backoff(S, t, f) == SetTop(S, t, [f EXCEPT !.pc = "sleep"])

queryCatch(S, t, e) ==
  LET f == Top(S, t)
      c == f.c
      f1 == [f EXCEPT !.err = e, !.errs = @ + 1]
      S1 == IF Matches(e)
            THEN [discardSocket(S, c) EXCEPT !.connected[c] = FALSE]
            ELSE S
  IN IF RetryAllowed(f.rc)
     THEN backoff(S1, t, f1)
     ELSE queryThrow(SetTop(S1, t, f1), t, e)

noResponseIsResult(S, t) ==
  queryComplete_(Observe(S, "null", t, Top(S, t), Top(S, t).s,
                         "return", "none"), t, "null")

(* the reader yielded no frame *)
noResponse(S, t) ==
  LET f == Top(S, t)
  IN IF RetryAllowed(f.rc)
     THEN backoff(Observe(S, "null", t, f, f.s, "retry", "none"),
                  t, [f EXCEPT !.err = "null"])
     ELSE queryComplete_(Observe(S, "null", t, f, f.s, "return", "none"),
                         t, "null")

querySend(S, t) ==
  LET f == Top(S, t)
      S0 == IF f.kind = "user"
            THEN Observe(S, "request", t, f, S.socket[f.c], "none", "none")
            ELSE S
      S1 == _sendMsg(S0, t)
  IN IF f.kind = "refresh" /\ S1.ret[t].k = "none"
     THEN [S1 EXCEPT !.refreshes = @ + 1]
     ELSE S1

queryLoop(S, t) ==
  LET f == Top(S, t)
      c == f.c
      S1 == SetTop(S, t, [f EXCEPT !.s = NoSocket, !.done = FALSE])
  IN IF ~LoopCond(f.rc)
     THEN Return(Observe(S, "exit", t, f, NoSocket, "return", "null"),
                 t, "null")
     ELSE IF ~S.connected[c] \/ S.socket[c] = NoSocket
               \/ ~writable(S, S.socket[c])
     THEN Call(S1, t, "conn", NewFrame("connect", c, "none"))
     ELSE querySend(S1, t)

(* the server accepted an Authenticate request read on transport f.s *)
accepted(S, f, v) ==
  IF f.kind = "auth" /\ v = "auth_ok"
  THEN [S EXCEPT !.authOn[f.c] = f.s]
  ELSE S

_query(S, t) ==
  LET f == Top(S, t)
      r == S.ret[t]
      c == f.c
  IN CASE f.pc = "start" ->
            queryLoop([S EXCEPT !.queryComplete[c] = FALSE], t)
       [] f.pc = "conn" ->
            IF r.k = "throw"
            THEN queryCatch(S, t, r.v)
            ELSE IF needsAuthenticate(S, c)
            THEN Call(S, t, "ea", NewFrame("ensureAuthenticated", c, "none"))
            ELSE querySend(S, t)
       [] f.pc = "ea" ->
            IF r.k = "throw" THEN queryCatch(S, t, r.v) ELSE querySend(S, t)
       [] f.pc = "send" ->
            IF r.k = "throw" THEN queryCatch(S, t, r.v) ELSE _recvMsg(S, t)
       [] f.pc = "recv" ->
            IF r.k = "throw"
            THEN queryCatch(S, t, r.v)
            ELSE IF r.v = "null"
            THEN noResponse(S, t)
            ELSE IF r.v = "garbage"
            THEN queryCatch(S, t, "Parse")
            ELSE IF r.v = "empty"
            THEN queryComplete_(S, t, "null")
            ELSE queryComplete_(accepted(S, f, r.v), t, r.v)
       [] f.pc = "sleep" ->
            LET S1 == SetTop(S, t, [f EXCEPT !.rc = @ + 1])
            IN queryLoop(queryFinally(S1, t), t)

(* ======================= BaseClient.query / destroy ==================== *)

query(S, t) ==
  LET f == Top(S, t)
      r == S.ret[t]
  IN CASE f.pc = "start" ->
            Call(S, t, "ea", NewFrame("ensureAuthenticated", f.c, "none"))
       [] f.pc = "ea" ->
            IF r.k = "throw"
            THEN Throw(S, t, r.v)
            ELSE Call(S, t, "run", NewFrame("_query", f.c, "user"))
       [] f.pc = "run" ->
            IF r.k = "throw" THEN Throw(S, t, r.v) ELSE Return(S, t, r.v)

destroyFinish(S, t, tr) ==
  LET f == Top(S, t)
      c == f.c
      S1 == [S EXCEPT !.connected[c] = FALSE,
                      !.authenticated[c] = FALSE,
                      !.messageCache[c] = NoCache,
                      !.session = NoSession]
  IN Return(release(Observe(S1, "destroyed", t, f, tr, "none", "none")),
            t, "ok")

(* socket.end(callback): a transport the pool has just destroyed, or one  *)
(* that is already down, reports on the next tick, before any other task *)
(* can run; a live transport outside the pool reports after its output   *)
(* is flushed.                                                            *)
endIsPending(S, key, s) == IndexOf(S.pool[key], s) = 0 /\ writable(S, s)

destroy(S, t) ==
  LET f == Top(S, t)
      c == f.c
  IN CASE f.pc = "start" -> acquire(S, t)
       [] f.pc = "locked" ->
            IF S.socket[c] = NoSocket
            THEN destroyFinish(S, t, NoSocket)
            ELSE IF endIsPending(S, poolKey(c), S.socket[c])
            THEN SetTop(S, t, [f EXCEPT !.pc = "closing", !.s = S.socket[c]])
            ELSE destroyFinish(
                   [removeConnection(S, poolKey(c), S.socket[c])
                      EXCEPT !.socket[c] = NoSocket], t, S.socket[c])
       [] f.pc = "closing" ->
            LET S1 == IF destroyed(S, f.s)
                      THEN S
                      ELSE socketDestroy(S, S.socket[c])
            IN destroyFinish([S1 EXCEPT !.socket[c] = NoSocket], t, f.s)

(* ======================= _checkSessionStatus / _renewSession =========== *)

_checkSessionStatus(S, t) ==
  LET f == Top(S, t)
      r == S.ret[t]
  IN CASE f.pc = "start" ->
            IF ~S.session.live \/ valid(S.session)
            THEN Return(S, t, "ok")
            ELSE acquire(S, t)
       [] f.pc = "locked" ->
            Call(S, t, "refresh", NewFrame("_refreshToken", f.c, "none"))
       [] f.pc = "refresh" ->
            IF r.k = "throw"
            THEN Throw(release(S), t, r.v)
            ELSE Return(release(S), t, "ok")

renewAttempts == 3

(* while (count < 3): after the last pause the loop ends and the function *)
(* returns                                                                *)
renewLoop(S, t) ==
  LET f == Top(S, t)
  IN IF f.rc < renewAttempts
     THEN Call(S, t, "check", NewFrame("_checkSessionStatus", f.c, "none"))
     ELSE Return(Observe(S, "renewed", t, f, NoSocket, "return", f.err),
                 t, "ok")

_renewSession(S, t) ==
  LET f == Top(S, t)
      r == S.ret[t]
  IN CASE f.pc = "start" -> renewLoop(S, t)
       [] f.pc = "check" ->
            LET f1 == [f EXCEPT !.errs = @ + 1,
                                !.err = IF r.k = "throw" THEN r.v ELSE "none"]
                S1 == SetTop(S, t, f1)
            IN IF r.k # "throw"
               THEN Return(Observe(S1, "renewed", t, f1, NoSocket,
                                   "return", "none"), t, "ok")
               ELSE IF r.v = "Unauthorized"
               THEN backoff(S, t, f1)
               ELSE Throw(Observe(S1, "renewed", t, f1, NoSocket,
                                  "throw", r.v), t, r.v)
       [] f.pc = "sleep" ->
            renewLoop(SetTop(S, t, [f EXCEPT !.rc = @ + 1]), t)

(* ======================= running a task ================================ *)

Step(S, t) ==
  LET fn == Top(S, t).fn
  IN CASE fn = "query" -> query(S, t)
       [] fn = "ensureAuthenticated" -> ensureAuthenticated(S, t)
       [] fn = "authenticate" -> authenticate(S, t)
       [] fn = "destroy" -> destroy(S, t)
       [] fn = "connect" -> connect(S, t)
       [] fn = "_connect" -> _connect(S, t)
       [] fn = "validateConnection" -> validateConnection(S, t)
       [] fn = "_authenticate" -> _authenticate(S, t)
       [] fn = "_refreshToken" -> _refreshToken(S, t)
       [] fn = "_query" -> _query(S, t)
       [] fn = "_renewSession" -> _renewSession(S, t)
       [] fn = "_checkSessionStatus" -> _checkSessionStatus(S, t)

RECURSIVE Run(_, _)
Run(S, t) == IF Suspended(S, t) THEN S ELSE Run(Step(S, t), t)

Resume(t, k, v) == Run(Settle(Pack, t, k, v), t)

Done(S) == ~S.over /\ Unpack(S)

Awaits(t, pc) ==
  /\ stack[t] # <<>>
  /\ stack[t][Len(stack[t])].pc = pc
  /\ ret[t].k = "none"

TopFrame(t) == stack[t][Len(stack[t])]

(* ======================= actions ======================================= *)

ApiOps == {"query", "ensureAuthenticated", "destroy"}

Pristine(c) ==
  /\ socket[c] = NoSocket
  /\ ~connected[c] /\ ~authenticated[c]
  /\ ~shouldAuthenticate[c] /\ ~queryComplete[c]
  /\ \A t \in Tasks : stack[t] = <<>> \/ stack[t][1].c # c

(* Idle task slots are interchangeable, and so are untouched clients: the *)
(* lowest idle slot takes the call, and "A" is the first client used.     *)
CallApi(t, c, op) ==
  /\ stack[t] = <<>>
  /\ t <= limits.tasks
  /\ \A u \in Tasks : stack[u] = <<>> => t <= u
  /\ c = "B" => ~(Pristine("A") /\ Pristine("B"))
  /\ calls < limits.calls
  /\ Done(Run([Pack EXCEPT !.stack[t] = <<NewFrame(op, c, "none")>>,
                           !.ret[t] = NoRet,
                           !.calls = @ + 1], t))

LockGranted(t) ==
  /\ Awaits(t, "locked")
  /\ lockHolder = t
  /\ Done(Run(Pack, t))

TcpDone(t) ==
  /\ Awaits(t, "tcp")
  /\ sock[TopFrame(t).s] = "connecting"
  /\ Done(Run(Settle([Pack EXCEPT !.sock[TopFrame(t).s] = "open"],
                     t, "ok", "ok"), t))

TcpFails(t) ==
  /\ Awaits(t, "tcp")
  /\ sock[TopFrame(t).s] = "connecting"
  /\ faults < limits.faults
  /\ Done(Run(Settle([Pack EXCEPT !.sock[TopFrame(t).s] = "reset",
                                  !.faults = @ + 1],
                     t, "throw", "ConnectFail"), t))

TlsDone(t) ==
  /\ Awaits(t, "tls")
  /\ sock[TopFrame(t).s] = "open"
  /\ Done(Resume(t, "ok", "ok"))

TlsFails(t) ==
  /\ Awaits(t, "tls")
  /\ sock[TopFrame(t).s] = "open"
  /\ faults < limits.faults
  /\ Done(Run(Settle([Pack EXCEPT !.sock[TopFrame(t).s] = "reset",
                                  !.wire[TopFrame(t).s] = <<>>,
                                  !.faults = @ + 1],
                     t, "throw", "TlsFail"), t))

WriteDone(t) ==
  /\ Awaits(t, "send")
  /\ sock[TopFrame(t).s] = "open"
  /\ Done(Run(Settle([Pack EXCEPT !.wire[TopFrame(t).s] =
                                     Append(@, TopFrame(t).kind)],
                     t, "ok", "true"), t))

TimerFires(t) ==
  /\ Awaits(t, "sleep")
  /\ Done(Resume(t, "ok", "ok"))

CloseDone(t) ==
  /\ Awaits(t, "closing")
  /\ Done(Resume(t, "ok", "ok"))

(* error, end and close events of a transport reach the call awaiting it *)
SocketEventOutcome(pc, state) ==
  CASE pc = "tcp" -> [k |-> "throw", v |-> "ConnectTimeout"]
    [] pc = "tls" -> [k |-> "throw", v |-> "TlsFail"]
    [] pc = "send" /\ state = "destroyed" ->
         [k |-> "throw", v |-> "SocketClosed"]
    [] pc = "send" -> [k |-> "throw", v |-> "WriteLost"]
    [] pc = "recv" /\ state = "reset" -> [k |-> "throw", v |-> "ECONNRESET"]
    [] pc = "recv" -> [k |-> "ok", v |-> "null"]

SocketEvent(t) ==
  /\ stack[t] # <<>>
  /\ ret[t].k = "none"
  /\ TopFrame(t).pc \in {"tcp", "tls", "send", "recv"}
  /\ sock[TopFrame(t).s] \in {"closed", "reset", "destroyed"}
  /\ LET f == TopFrame(t)
         o == SocketEventOutcome(f.pc, sock[f.s])
         S1 == IF f.pc \in {"send", "recv"}
               THEN [Pack EXCEPT !.connected[f.c] = FALSE]
               ELSE Pack
     IN Done(Run(Settle(S1, t, o.k, o.v), t))

(* ---- the server and the network ---- *)

Reply(kind) ==
  CASE kind = "hs" -> "hs_ok"
    [] kind = "user" -> "user_ok"
    [] kind = "auth" -> "auth_ok"
    [] kind = "refresh" -> "ref_ok"
    [] kind = "ping" -> "ping_ok"

BadReply(kind) ==
  CASE kind = "hs" -> "hs_bad"
    [] kind = "user" -> "garbage"
    [] kind = "auth" -> "auth_fail"
    [] kind = "refresh" -> "ref_fail"
    [] kind = "ping" -> "ping_fail"

(* handshake replies that are well formed but differ from the request *)
OtherHandshakes == {"hs_version", "hs_mode"}

Listeners(S, s) ==
  {t \in Tasks : /\ S.stack[t] # <<>>
                 /\ Top(S, t).pc = "recv"
                 /\ Top(S, t).s = s
                 /\ S.ret[t].k = "none"}

RECURSIVE RunAll(_, _)
RunAll(S, ts) ==
  IF ts = {}
  THEN S
  ELSE LET t == Min(ts) IN RunAll(Run(S, t), ts \ {t})

Deliver(S, s, v) ==
  LET ls == Listeners(S, s)
      S1 == [S EXCEPT !.wire[s] = Tail(@),
                      !.ret = [t \in Tasks |->
                                 IF t \in ls THEN [k |-> "ok", v |-> v]
                                 ELSE @[t]]]
  IN RunAll(S1, ls)

ServerReply(s) ==
  /\ sock[s] = "open"
  /\ wire[s] # <<>>
  /\ Done(Deliver(Pack, s, Reply(Head(wire[s]))))

ServerRefuses(s) ==
  /\ sock[s] = "open"
  /\ wire[s] # <<>>
  /\ faults < limits.faults
  /\ \E v \in {BadReply(Head(wire[s]))} \cup
               (IF Head(wire[s]) = "hs" THEN OtherHandshakes ELSE {}) :
       Done(Deliver([Pack EXCEPT !.faults = @ + 1], s, v))

PeerClose(s) ==
  /\ sock[s] = "open"
  /\ faults < limits.faults
  /\ Done([Pack EXCEPT !.sock[s] = "closed", !.wire[s] = <<>>,
                       !.faults = @ + 1])

PeerReset(s) ==
  /\ sock[s] = "open"
  /\ faults < limits.faults
  /\ Done([Pack EXCEPT !.sock[s] = "reset", !.wire[s] = <<>>,
                       !.faults = @ + 1])

SessionExpires ==
  /\ session.live
  /\ session.isValid
  /\ expiries < MaxExpiries
  /\ Done([Pack EXCEPT !.session.isValid = FALSE, !.expiries = @ + 1])

(* the pool's interval timer; with a null transport in the pool the      *)
(* callback throws out of the timer and the process stops.                *)
cleanupThrows(S) ==
  \E k \in Keys : \E i \in 1..Len(S.pool[k]) : S.pool[k][i].socket = NoSocket

Sweep ==
  /\ cleanupInterval
  /\ ~cleanupThrows(Pack)
  /\ cleanup(Pack).pool # pool
  /\ Done(cleanup(Pack))

(* ======================= specification ================================= *)

(* A run is either one call under many faults, a short sequence of calls *)
(* under few faults, or concurrent calls on a healthy network.            *)
(* The singleton as the specifications of one pool see it: the pool has  *)
(* been made once and every client holds it.                              *)
OneInstance ==
  /\ instance = 1
  /\ poolsMade = 1
  /\ poolData = [p \in 1..MaxPools |-> NoSharedData]
  /\ connectionPool = [c \in ClientObjects |-> 1]

(* The session clock as the other specifications see it: they keep the   *)
(* validity of the session as a flag (SessionExpires).                    *)
ClockAtRest ==
  /\ dateNow = 0
  /\ sessionStarted = 0
  /\ sessionTokenTtl = 0
  /\ expiryOffset = 0
  /\ validCall = NotAsked

(* the frame reader with no read pending and nothing on the wire *)
FramesAtRest ==
  /\ stream = <<>>
  /\ sent = <<>>
  /\ arrived = 0
  /\ missed = 0
  /\ reader = NoReader
  /\ results = <<>>
  /\ frConnected = TRUE
  /\ frSock = "open"

(* parallel.ts before any query object is made *)
ParallelIdle ==
  /\ pq = [q \in Queries |-> NewQuery]
  /\ engineCalls = [q \in Queries |-> 0]
  /\ act = [c \in CallIds |-> [q \in Queries |-> Idle]]
  /\ pcall = [c \in CallIds |-> NoCall]
  /\ isExecuting = FALSE
  /\ first = [q \in Queries |-> NoOutcome]
  /\ entries = 0
  /\ qev = {}
  /\ cev = {}

ParallelAtRest ==
  /\ ParallelIdle
  /\ plimits = [callers |-> 0, queries |-> 0, entries |-> 0]

Budgets ==
  {[tasks |-> 1, calls |-> 1, faults |-> MaxFaults],
   [tasks |-> 1, calls |-> SeqCalls, faults |-> SeqFaults],
   [tasks |-> ConcTasks, calls |-> MaxCalls, faults |-> 0]}

Init ==
  /\ pool = [k \in Keys |-> <<>>]
  /\ sock = [s \in 1..MaxSockets |-> "unused"]
  /\ wire = [s \in 1..MaxSockets |-> <<>>]
  /\ now = 0
  /\ session = NoSession
  /\ lockHolder = NoTask
  /\ lockQueue = <<>>
  /\ socket = [c \in Clients |-> NoSocket]
  /\ connected = [c \in Clients |-> FALSE]
  /\ authenticated = [c \in Clients |-> FALSE]
  /\ shouldAuthenticate = [c \in Clients |-> FALSE]
  /\ queryComplete = [c \in Clients |-> FALSE]
  /\ useSsl \in BOOLEAN
  /\ stack = [t \in Tasks |-> <<>>]
  /\ ret = [t \in Tasks |-> NoRet]
  /\ faults = 0
  /\ calls = 0
  /\ limits \in Budgets
  /\ expiries = 0
  /\ poolOps = 0
  /\ cleanupInterval = TRUE
  /\ messageCache = [c \in Clients |-> NoCache]
  /\ authOn = [c \in Clients |-> NoSocket]
  /\ refreshes = 0
  /\ ev = {}
  /\ OneInstance
  /\ ClockAtRest
  /\ ParallelAtRest
  /\ FramesAtRest

Next ==
  \/ \E t \in Tasks, c \in Clients, op \in ApiOps : CallApi(t, c, op)
  \/ \E t \in Tasks : LockGranted(t)
  \/ \E t \in Tasks : TcpDone(t)
  \/ \E t \in Tasks : TcpFails(t)
  \/ \E t \in Tasks : TlsDone(t)
  \/ \E t \in Tasks : TlsFails(t)
  \/ \E t \in Tasks : WriteDone(t)
  \/ \E t \in Tasks : TimerFires(t)
  \/ \E t \in Tasks : CloseDone(t)
  \/ \E t \in Tasks : SocketEvent(t)
  \/ \E s \in DOMAIN sock : ServerReply(s)
  \/ \E s \in DOMAIN sock : ServerRefuses(s)
  \/ \E s \in DOMAIN sock : PeerClose(s)
  \/ \E s \in DOMAIN sock : PeerReset(s)
  \/ SessionExpires
  \/ Sweep

Spec == Init /\ [][Next]_vars

(* ======================= renewing the session ========================== *)
(* One caller authenticates, the session expires and the caller renews    *)
(* it; the server may answer a RefreshToken request with a body that      *)
(* holds no JSON text.                                                    *)

RenewBudget == [tasks |-> 1, calls |-> RenewCalls, faults |-> RenewFaults]

InitRenew ==
  /\ pool = [k \in Keys |-> <<>>]
  /\ sock = [s \in 1..MaxSockets |-> "unused"]
  /\ wire = [s \in 1..MaxSockets |-> <<>>]
  /\ now = 0
  /\ session = NoSession
  /\ lockHolder = NoTask
  /\ lockQueue = <<>>
  /\ socket = [c \in Clients |-> NoSocket]
  /\ connected = [c \in Clients |-> FALSE]
  /\ authenticated = [c \in Clients |-> FALSE]
  /\ shouldAuthenticate = [c \in Clients |-> FALSE]
  /\ queryComplete = [c \in Clients |-> FALSE]
  /\ useSsl \in BOOLEAN
  /\ stack = [t \in Tasks |-> <<>>]
  /\ ret = [t \in Tasks |-> NoRet]
  /\ faults = 0
  /\ calls = 0
  /\ limits = RenewBudget
  /\ expiries = 0
  /\ poolOps = 0
  /\ cleanupInterval = TRUE
  /\ messageCache = [c \in Clients |-> NoCache]
  /\ authOn = [c \in Clients |-> NoSocket]
  /\ refreshes = 0
  /\ ev = {}
  /\ OneInstance
  /\ ClockAtRest
  /\ ParallelAtRest
  /\ FramesAtRest

RenewOps == {"ensureAuthenticated", "_renewSession"}

ServerEmpty(s) ==
  /\ sock[s] = "open"
  /\ wire[s] # <<>>
  /\ Head(wire[s]) = "refresh"
  /\ faults < limits.faults
  /\ Done(Deliver([Pack EXCEPT !.faults = @ + 1], s, "empty"))

NextRenew ==
  \/ \E t \in Tasks, c \in Clients, op \in RenewOps : CallApi(t, c, op)
  \/ \E t \in Tasks : TcpDone(t)
  \/ \E t \in Tasks : TcpFails(t)
  \/ \E t \in Tasks : TlsDone(t)
  \/ \E t \in Tasks : TlsFails(t)
  \/ \E t \in Tasks : WriteDone(t)
  \/ \E t \in Tasks : TimerFires(t)
  \/ \E t \in Tasks : SocketEvent(t)
  \/ \E s \in DOMAIN sock : ServerReply(s)
  \/ \E s \in DOMAIN sock : ServerRefuses(s)
  \/ \E s \in DOMAIN sock : ServerEmpty(s)
  \/ \E s \in DOMAIN sock : PeerClose(s)
  \/ \E s \in DOMAIN sock : PeerReset(s)
  \/ SessionExpires

SpecRenew == InitRenew /\ [][NextRenew]_vars

(* ======================= connecting to a crowded pool ================== *)
(* Other clients of the process hold HeldByOthers busy entries of the     *)
(* key's list, each on an open transport; one more client then connects.  *)

FullBudget == [tasks |-> 1, calls |-> 1, faults |-> FullFaults]

HeldEntries(n) ==
  [i \in 1..n |-> [socket |-> i, lastUsed |-> 0, busy |-> TRUE]]

InitFull ==
  /\ \E n \in {maxPoolSize - 1, maxPoolSize} :
       /\ pool = [k \in Keys |-> IF k = "k1" THEN HeldEntries(n) ELSE <<>>]
       /\ sock = [s \in 1..FullSockets |->
                    IF s <= n THEN "open" ELSE "unused"]
  /\ wire = [s \in 1..FullSockets |-> <<>>]
  /\ now = 0
  /\ session = NoSession
  /\ lockHolder = NoTask
  /\ lockQueue = <<>>
  /\ socket = [c \in Clients |-> NoSocket]
  /\ connected = [c \in Clients |-> FALSE]
  /\ authenticated = [c \in Clients |-> FALSE]
  /\ shouldAuthenticate = [c \in Clients |-> FALSE]
  /\ queryComplete = [c \in Clients |-> FALSE]
  /\ useSsl \in BOOLEAN
  /\ stack = [t \in Tasks |-> <<>>]
  /\ ret = [t \in Tasks |-> NoRet]
  /\ faults = 0
  /\ calls = 0
  /\ limits = FullBudget
  /\ expiries = 0
  /\ poolOps = 0
  /\ cleanupInterval = TRUE
  /\ messageCache = [c \in Clients |-> NoCache]
  /\ authOn = [c \in Clients |-> NoSocket]
  /\ refreshes = 0
  /\ ev = {}
  /\ OneInstance
  /\ ClockAtRest
  /\ ParallelAtRest
  /\ FramesAtRest

FullOps == {"ensureAuthenticated", "query"}

NextFull ==
  \/ \E t \in Tasks, c \in Clients, op \in FullOps : CallApi(t, c, op)
  \/ \E t \in Tasks : TcpDone(t)
  \/ \E t \in Tasks : TcpFails(t)
  \/ \E t \in Tasks : TlsDone(t)
  \/ \E t \in Tasks : TlsFails(t)
  \/ \E t \in Tasks : WriteDone(t)
  \/ \E t \in Tasks : TimerFires(t)
  \/ \E t \in Tasks : SocketEvent(t)
  \/ \E s \in DOMAIN sock : ServerReply(s)
  \/ \E s \in DOMAIN sock : ServerRefuses(s)
  \/ \E s \in DOMAIN sock : PeerClose(s)
  \/ \E s \in DOMAIN sock : PeerReset(s)

SpecFull == InitFull /\ [][NextFull]_vars

(* ======================= concurrent queries on a connected client ====== *)
(* Client A has connected and authenticated (ensureAuthenticated has      *)
(* returned).  MaxTasks callers then make SharedCalls calls of query on   *)
(* it over plain TCP, SharedSockets transport objects exist, and the peer *)
(* closes a transport SharedFaults times.                                 *)

SharedBudget == [tasks |-> MaxTasks, calls |-> SharedCalls, faults |-> SharedFaults]

InitShared ==
  /\ pool = [k \in Keys |->
               IF k = "k1"
               THEN <<[socket |-> 1, lastUsed |-> 0, busy |-> FALSE]>>
               ELSE <<>>]
  /\ sock = [s \in 1..SharedSockets |-> IF s = 1 THEN "open" ELSE "unused"]
  /\ wire = [s \in 1..SharedSockets |-> <<>>]
  /\ now = 0
  /\ session = NewSession
  /\ lockHolder = NoTask
  /\ lockQueue = <<>>
  /\ socket = [c \in Clients |-> IF c = "A" THEN 1 ELSE NoSocket]
  /\ connected = [c \in Clients |-> c = "A"]
  /\ authenticated = [c \in Clients |-> c = "A"]
  /\ shouldAuthenticate = [c \in Clients |-> FALSE]
  /\ queryComplete = [c \in Clients |-> c = "A"]
  /\ useSsl = FALSE
  /\ stack = [t \in Tasks |-> <<>>]
  /\ ret = [t \in Tasks |-> NoRet]
  /\ faults = 0
  /\ calls = 0
  /\ limits = SharedBudget
  /\ expiries = 0
  /\ poolOps = 0
  /\ cleanupInterval = TRUE
  /\ messageCache = [c \in Clients |-> NoCache]
  /\ authOn = [c \in Clients |-> IF c = "A" THEN 1 ELSE NoSocket]
  /\ refreshes = 0
  /\ ev = {}
  /\ OneInstance
  /\ ClockAtRest
  /\ ParallelAtRest
  /\ FramesAtRest

NextShared ==
  \/ \E t \in Tasks : CallApi(t, "A", "query")
  \/ \E t \in Tasks : TcpDone(t)
  \/ \E t \in Tasks : WriteDone(t)
  \/ \E t \in Tasks : TimerFires(t)
  \/ \E t \in Tasks : SocketEvent(t)
  \/ \E s \in DOMAIN sock : ServerReply(s)
  \/ \E s \in DOMAIN sock : PeerClose(s)

SpecShared == InitShared /\ [][NextShared]_vars

(* ======================= the pool on its own =========================== *)
(* Any sequence of calls of the pool's operations, with fresh transports  *)
(* offered in turn, the clock advancing and peers closing transports.     *)

PoolIdle == [tasks |-> 0, calls |-> 0, faults |-> 0]

(* Two scenarios: a pool filled past its capacity, and a smaller pool    *)
(* over which time passes, a session is stored and the pool is torn down *)
PoolBudgets ==
  {[offers |-> PoolSockets, elapse |-> 0, teardown |-> FALSE],
   [offers |-> SweptSockets, elapse |-> MaxElapse, teardown |-> TRUE]}

InitPool ==
  /\ pool = [k \in Keys |-> <<>>]
  /\ sock = [s \in 1..PoolSockets |-> "unused"]
  /\ wire = [s \in 1..PoolSockets |-> <<>>]
  /\ now = 0
  /\ session = NoSession
  /\ lockHolder = NoTask
  /\ lockQueue = <<>>
  /\ socket = [c \in Clients |-> NoSocket]
  /\ connected = [c \in Clients |-> FALSE]
  /\ authenticated = [c \in Clients |-> FALSE]
  /\ shouldAuthenticate = [c \in Clients |-> FALSE]
  /\ queryComplete = [c \in Clients |-> FALSE]
  /\ useSsl = TRUE
  /\ stack = [t \in Tasks |-> <<>>]
  /\ ret = [t \in Tasks |-> NoRet]
  /\ faults = 0
  /\ calls = 0
  /\ expiries = 0
  /\ poolOps = 0
  /\ cleanupInterval = TRUE
  /\ messageCache = [c \in Clients |-> NoCache]
  /\ authOn = [c \in Clients |-> NoSocket]
  /\ refreshes = 0
  /\ limits \in PoolBudgets
  /\ ev = {}
  /\ OneInstance
  /\ ClockAtRest
  /\ ParallelAtRest
  /\ FramesAtRest

Created == {s \in DOMAIN sock : sock[s] # "unused"}

Offer(k) ==
  /\ Cardinality(Created) < limits.offers
  /\ LET s == Min(DOMAIN sock \ Created)
     IN Done(addConnection([Pack EXCEPT !.sock[s] = "open"], k, s))

PoolMarkBusy(k, s, busy) ==
  /\ poolOps < MaxPoolOps
  /\ Done(markBusy([Pack EXCEPT !.poolOps = @ + 1], k, s, busy))

PoolRemove(k, s) ==
  /\ poolOps < MaxPoolOps
  /\ Done(removeConnection([Pack EXCEPT !.poolOps = @ + 1], k, s))

PoolCleanup ==
  /\ cleanupInterval
  /\ poolOps < MaxPoolOps
  /\ Done(cleanup([Pack EXCEPT !.poolOps = @ + 1]))

Tick(d) ==
  /\ now + d <= limits.elapse
  /\ Done([Pack EXCEPT !.now = @ + d])

(* a client stores the session it obtained in the pool's shared data *)
PoolStoreSession ==
  /\ limits.teardown
  /\ ~session.live
  /\ Done([Pack EXCEPT !.session = NewSession])

PoolDestroy ==
  /\ limits.teardown
  /\ Done(poolDestroy(Pack))

(* a lookup: the observer keeps the key asked for and the entry returned *)
PoolGet(k) ==
  LET s == getConnection(Pack, k)
      i == IndexOf(pool[k], s)
  IN Done([Pack EXCEPT !.ev =
       {[type |-> "got", t |-> NoTask, kind |-> "none", rc |-> 0,
         errs |-> 0, err |-> "none", done |-> FALSE, tr |-> s,
         a |-> k, b |-> "none",
         inPool |-> s # NoSocket /\ i # 0,
         busy |-> s # NoSocket /\ i # 0 /\ pool[k][i].busy,
         dead |-> s # NoSocket /\ sock[s] \in {"reset", "destroyed"},
         cleared |-> TRUE, connected |-> FALSE, authenticated |-> FALSE,
         should |-> FALSE, live |-> session.live, held |-> FALSE,
         authOn |-> NoSocket]}])

PoolPeerClose(s) ==
  /\ poolOps < MaxPoolOps
  /\ sock[s] = "open"
  /\ Done([Pack EXCEPT !.sock[s] = "closed", !.poolOps = @ + 1])

NextPool ==
  \/ \E k \in Keys : Offer(k)
  \/ \E k \in Keys, s \in Created, busy \in BOOLEAN : PoolMarkBusy(k, s, busy)
  \/ \E k \in Keys, s \in Created : PoolRemove(k, s)
  \/ \E k \in Keys : PoolGet(k)
  \/ PoolCleanup
  \/ \E d \in 1..MaxElapse : Tick(d)
  \/ PoolStoreSession
  \/ PoolDestroy
  \/ \E s \in Created : PoolPeerClose(s)

SpecPool == InitPool /\ [][NextPool]_vars

(* ======================= the message cache ============================= *)
(* _query builds the request frame of (text, blobs) under the current     *)
(* session token, or takes it from messageCache.  A query is a command    *)
(* text and a blob array, both named; the session does not change during  *)
(* a run, so its token is one name.                                       *)

Texts == {"find", "add"}
BlobArrays == {"empty", "blobs1", "blobs2"}

sessionToken(S) == IF S.session.live THEN "token" ELSE ""

cacheKey(S, text) == <<text, sessionToken(S)>>

(* QueryMessage.toBuffer(): the frame holds the text, the blobs and the   *)
(* token the message was built with                                       *)
toBuffer(text, blobs, token) == [json |-> text, blobs |-> blobs, token |-> token]

cacheSet(cache, key, buf) ==
  [k \in DOMAIN cache \cup {key} |-> IF k = key THEN buf ELSE cache[k]]

(* the request frame _query hands to _sendMsg, and the cache afterwards;   *)
(* the observer keeps the blobs passed (a) and those of the frame (b)     *)
queryBuffer(S, c, text, blobs) ==
  LET key == cacheKey(S, text)
      cache == S.messageCache[c]
      buf == IF key \in DOMAIN cache
             THEN cache[key]
             ELSE toBuffer(text, blobs, sessionToken(S))
  IN [S EXCEPT
        !.messageCache[c] = cacheSet(cache, key, buf),
        !.ev = {[type |-> "frame", t |-> NoTask, kind |-> buf.json, rc |-> 0,
                 errs |-> 0, err |-> text, done |-> FALSE, tr |-> NoSocket,
                 a |-> blobs, b |-> buf.blobs,
                 inPool |-> FALSE, busy |-> FALSE, dead |-> FALSE,
                 cleared |-> TRUE, connected |-> FALSE,
                 authenticated |-> FALSE, should |-> FALSE,
                 live |-> S.session.live, held |-> key \in DOMAIN cache,
                 authOn |-> NoSocket]}]

InitCache ==
  /\ pool = [k \in Keys |-> <<>>]
  /\ sock = [s \in 1..MaxSockets |-> "unused"]
  /\ wire = [s \in 1..MaxSockets |-> <<>>]
  /\ now = 0
  /\ session \in {NoSession, NewSession}
  /\ lockHolder = NoTask
  /\ lockQueue = <<>>
  /\ socket = [c \in Clients |-> NoSocket]
  /\ connected = [c \in Clients |-> FALSE]
  /\ authenticated = [c \in Clients |-> FALSE]
  /\ shouldAuthenticate = [c \in Clients |-> FALSE]
  /\ queryComplete = [c \in Clients |-> FALSE]
  /\ useSsl = TRUE
  /\ stack = [t \in Tasks |-> <<>>]
  /\ ret = [t \in Tasks |-> NoRet]
  /\ faults = 0
  /\ calls = 0
  /\ limits = PoolIdle
  /\ expiries = 0
  /\ poolOps = 0
  /\ cleanupInterval = TRUE
  /\ messageCache = [c \in Clients |-> NoCache]
  /\ authOn = [c \in Clients |-> NoSocket]
  /\ refreshes = 0
  /\ ev = {}
  /\ OneInstance
  /\ ClockAtRest
  /\ ParallelAtRest
  /\ FramesAtRest

(* one attempt of _query up to the frame it sends *)
QueryFrame(c, text, blobs) ==
  /\ text \in Texts
  /\ Done(queryBuffer(Pack, c, text, blobs))

(* destroy(): this.messageCache.clear() *)
CacheClear(c) ==
  /\ messageCache[c] # NoCache
  /\ Done([Pack EXCEPT !.messageCache[c] = NoCache])

NextCache ==
  \/ \E c \in Clients, text \in Texts, blobs \in BlobArrays :
       QueryFrame(c, text, blobs)
  \/ \E c \in Clients : CacheClear(c)

SpecCache == InitCache /\ [][NextCache]_vars

(* ======================= the pool singleton and its clients ============ *)
(* ConnectionPool objects are numbered in the order they are constructed; *)
(* poolData[p] is the SharedData of object p.  A session is named by the  *)
(* client that stored it, the mutex by the client that holds it.          *)

InitInstances ==
  /\ pool = [k \in Keys |-> <<>>]
  /\ sock = [s \in 1..MaxSockets |-> "unused"]
  /\ wire = [s \in 1..MaxSockets |-> <<>>]
  /\ now = 0
  /\ session = NoSession
  /\ lockHolder = NoTask
  /\ lockQueue = <<>>
  /\ socket = [c \in Clients |-> NoSocket]
  /\ connected = [c \in Clients |-> FALSE]
  /\ authenticated = [c \in Clients |-> FALSE]
  /\ shouldAuthenticate = [c \in Clients |-> FALSE]
  /\ queryComplete = [c \in Clients |-> FALSE]
  /\ useSsl = TRUE
  /\ stack = [t \in Tasks |-> <<>>]
  /\ ret = [t \in Tasks |-> NoRet]
  /\ faults = 0
  /\ calls = 0
  /\ expiries = 0
  /\ poolOps = 0
  /\ cleanupInterval = TRUE
  /\ messageCache = [c \in Clients |-> NoCache]
  /\ authOn = [c \in Clients |-> NoSocket]
  /\ refreshes = 0
  /\ limits = PoolIdle
  /\ ev = {}
  /\ instance = NoPool
  /\ poolsMade = 0
  /\ poolData = [p \in 1..MaxPools |-> NoSharedData]
  /\ connectionPool = [c \in ClientObjects |-> NoPool]
  /\ ClockAtRest
  /\ ParallelAtRest
  /\ FramesAtRest

Constructed == {c \in ClientObjects : connectionPool[c] # NoPool}

(* the object ConnectionPool.getInstance() returns *)
getInstance == IF instance = NoPool THEN poolsMade + 1 ELSE instance

(* the SharedData object a client's sharedData getter returns *)
sharedData(c) == connectionPool[c]

NewClient(c) ==
  /\ c \notin Constructed
  /\ getInstance <= MaxPools
  /\ instance' = getInstance
  /\ poolsMade' = IF instance = NoPool THEN poolsMade + 1 ELSE poolsMade
  /\ connectionPool' = [connectionPool EXCEPT ![c] = getInstance]
  /\ UNCHANGED <<poolData, clientVars, sessionVars, parallelVars, frameVars>>

destroyInstance ==
  /\ instance # NoPool
  /\ poolData' = [poolData EXCEPT ![instance].session = NoClient]
  /\ instance' = NoPool
  /\ UNCHANGED <<poolsMade, connectionPool, clientVars, sessionVars,
                 parallelVars, frameVars>>

StoreSession(c) ==
  /\ c \in Constructed
  /\ poolData' = [poolData EXCEPT ![sharedData(c)].session = c]
  /\ UNCHANGED <<instance, poolsMade, connectionPool, clientVars,
                 sessionVars, parallelVars, frameVars>>

LockAcquire(c) ==
  /\ c \in Constructed
  /\ poolData[sharedData(c)].lock = NoClient
  /\ poolData' = [poolData EXCEPT ![sharedData(c)].lock = c]
  /\ UNCHANGED <<instance, poolsMade, connectionPool, clientVars,
                 sessionVars, parallelVars, frameVars>>

LockRelease(c) ==
  /\ c \in Constructed
  /\ poolData[sharedData(c)].lock = c
  /\ poolData' = [poolData EXCEPT ![sharedData(c)].lock = NoClient]
  /\ UNCHANGED <<instance, poolsMade, connectionPool, clientVars,
                 sessionVars, parallelVars, frameVars>>

NextInstances ==
  \/ \E c \in ClientObjects : NewClient(c)
  \/ destroyInstance
  \/ \E c \in ClientObjects : StoreSession(c)
  \/ \E c \in ClientObjects : LockAcquire(c)
  \/ \E c \in ClientObjects : LockRelease(c)

SpecInstances == InitInstances /\ [][NextInstances]_vars

(* ======================= Session.valid on the clock ==================== *)
(* Times are counted in tenths of a second, the ttl and the offset in     *)
(* seconds.  The session is created at sessionStarted = Date.now(); the   *)
(* ttl the server granted exceeds the offset.                             *)

Ttls == {2, 60}
Offsets == {0, 1, 10}

sessionAge(t) == t - sessionStarted

validAt(t) ==
  sessionAge(t) <= (sessionTokenTtl - expiryOffset) * TicksPerSecond

InitSession ==
  /\ pool = [k \in Keys |-> <<>>]
  /\ sock = [s \in 1..MaxSockets |-> "unused"]
  /\ wire = [s \in 1..MaxSockets |-> <<>>]
  /\ now = 0
  /\ session = NoSession
  /\ lockHolder = NoTask
  /\ lockQueue = <<>>
  /\ socket = [c \in Clients |-> NoSocket]
  /\ connected = [c \in Clients |-> FALSE]
  /\ authenticated = [c \in Clients |-> FALSE]
  /\ shouldAuthenticate = [c \in Clients |-> FALSE]
  /\ queryComplete = [c \in Clients |-> FALSE]
  /\ useSsl = TRUE
  /\ stack = [t \in Tasks |-> <<>>]
  /\ ret = [t \in Tasks |-> NoRet]
  /\ faults = 0
  /\ calls = 0
  /\ expiries = 0
  /\ poolOps = 0
  /\ cleanupInterval = TRUE
  /\ messageCache = [c \in Clients |-> NoCache]
  /\ authOn = [c \in Clients |-> NoSocket]
  /\ refreshes = 0
  /\ limits = PoolIdle
  /\ ev = {}
  /\ OneInstance
  /\ sessionStarted \in {0, 7}
  /\ dateNow = sessionStarted
  /\ sessionTokenTtl \in Ttls
  /\ expiryOffset \in Offsets
  /\ sessionTokenTtl > expiryOffset
  /\ validCall = NotAsked
  /\ ParallelAtRest
  /\ FramesAtRest

Elapse ==
  /\ sessionAge(dateNow) < MaxAge
  /\ dateNow' = dateNow + 1
  /\ validCall' = NotAsked
  /\ UNCHANGED <<sessionStarted, sessionTokenTtl, expiryOffset,
                 clientVars, instanceVars, parallelVars, frameVars>>

CallValid ==
  /\ validCall' = [asked |-> TRUE, age |-> sessionAge(dateNow),
                   result |-> validAt(dateNow)]
  /\ UNCHANGED <<dateNow, sessionStarted, sessionTokenTtl, expiryOffset,
                 clientVars, instanceVars, parallelVars, frameVars>>

NextSession ==
  \/ Elapse
  \/ CallValid

SpecSession == InitSession /\ [][NextSession]_vars

(* ======================= parallel.ts =================================== *)
(* The engine is the QueryExecutor handed to the layer: every call of     *)
(* client.query is answered later by the environment with a response, an  *)
(* empty response, a response of negative status, or a rejection.  A      *)
(* response and an error are named by the engine call they came from:     *)
(* [q, n] is the n-th engine call made for query object q.  The query     *)
(* objects are 1..MaxQueries in the order they were added; a set or a     *)
(* list of len queries holds the objects 1..len.  executeQueries makes    *)
(* its query objects itself: it is modelled when no other call is         *)
(* pending, and then takes the names 1..len for its new objects.          *)

(* What client.query settles with: a rejection, a null response, a single *)
(* command object or an array of command objects, each with its status.   *)
Statuses == {0, -1}

EngineOutcomes ==
  {[k |-> "throw", st |-> <<>>], [k |-> "null", st |-> <<>>]}
    \cup {[k |-> "object", st |-> <<a>>] : a \in Statuses}
    \cup {[k |-> "array", st |-> <<a>>] : a \in Statuses}
    \cup {[k |-> "array", st |-> <<a, b>>] : a \in Statuses, b \in Statuses}

PackPar ==
  [pq |-> pq, engineCalls |-> engineCalls, act |-> act, pcall |-> pcall,
   isExecuting |-> isExecuting, first |-> first, entries |-> entries,
   qev |-> {}, cev |-> {}]

DonePar(P) ==
  /\ pq' = P.pq
  /\ engineCalls' = P.engineCalls
  /\ act' = P.act
  /\ pcall' = P.pcall
  /\ isExecuting' = P.isExecuting
  /\ first' = P.first
  /\ entries' = P.entries
  /\ UNCHANGED plimits
  /\ qev' = P.qev
  /\ cev' = P.cev
  /\ UNCHANGED <<clientVars, instanceVars, sessionVars, frameVars>>

(* queries.slice(i, i + size), as the sequence of its objects *)
Slice(i, size, len) ==
  [j \in 1..(IF len - i < size THEN len - i ELSE size) |-> i + j]

Running(P, c) == {q \in Queries : P.act[c][q].st # "idle"}

(* ---- ParallelQuery.execute ---- *)

(* one call of client.query *)
clientQuery(P, c, q, attempt) ==
  [P EXCEPT !.engineCalls[q] = @ + 1,
            !.act[c][q].st = "query",
            !.act[c][q].attempt = attempt,
            !.act[c][q].n = P.engineCalls[q] + 1,
            !.act[c][q].sent = @ + 1]

(* execute() up to its first await: a replay of the memo, or attempt 0 *)
begin(P, c, q) ==
  LET m == P.pq[q]
      a == [Idle EXCEPT !.after = P.first[q].k # "none"]
  IN IF m.executed
     THEN [P EXCEPT !.act[c][q] =
             [a EXCEPT !.st = "replay", !.lastError = m.error,
                       !.val = IF m.error # NoVal THEN m.error
                                                  ELSE m.response]]
     ELSE clientQuery([P EXCEPT !.act[c][q] = a], c, q, 0)

RECURSIVE beginAll(_, _, _)
beginAll(P, c, qs) ==
  IF qs = <<>> THEN P ELSE beginAll(begin(P, c, Head(qs)), c, Tail(qs))

observeQuery(P, c, q, k, v) ==
  LET a == P.act[c][q]
  IN [P EXCEPT !.qev = @ \cup
                 {[c |-> c, q |-> q, after |-> a.after, sent |-> a.sent,
                   k |-> k, v |-> v, first |-> P.first[q]]},
               !.first[q] = IF @.k = "none" THEN [k |-> k, v |-> v] ELSE @]

(* ---- the end of an entry-point call ---- *)

(* the message of the Error ParallelQuerySet.execute raises *)
messageFirstOnly(errors) == <<Head(errors)>>

message(errors) == errors

finishCall(P, c, k, responses, errors) ==
  LET call == P.pcall[c]
  IN [P EXCEPT
        !.cev = @ \cup
          {[c |-> c, kind |-> call.kind, k |-> k, len |-> call.len,
            responses |-> responses, errors |-> errors,
            outs |-> call.outs]},
        !.isExecuting = IF call.kind \in {"queries", "batch"}
                        THEN FALSE ELSE @,
        !.pcall[c] = IF Running(P, c) = {} THEN NoCall
                     ELSE [NoCall EXCEPT !.kind = "orphans"]]

(* ---- ParallelQuerySet.execute ---- *)

raisesOnAnyError(call) == call.errors # <<>>

raises(call) == call.errors # <<>> /\ call.responses = <<>>

finishSet(P, c) ==
  LET call == P.pcall[c]
  IN IF raises(call)
     THEN finishCall(P, c, "throw", <<>>, message(call.errors))
     ELSE finishCall(P, c, "return", call.responses, <<>>)

nextBatch(P, c) ==
  LET call == P.pcall[c]
  IN IF call.i + maxBatchSize < call.len
     THEN [P EXCEPT !.pcall[c].i = @ + maxBatchSize, !.pcall[c].pc = "gap"]
     ELSE finishSet(P, c)

allOfBatch(call, batch) == batch

succeeded(call, batch) ==
  SelectSeq(batch, LAMBDA q : call.outs[q].k = "ok")

afterBatch(P, c) ==
  LET call == P.pcall[c]
      batch == Slice(call.i, maxBatchSize, call.len)
      oks == succeeded(call, batch)
      P1 == [P EXCEPT !.pcall[c].responses =
                        @ \o [j \in 1..Len(oks) |-> call.outs[oks[j]].v]]
  IN IF Len(oks) * 2 < Len(batch)
     THEN [P1 EXCEPT !.pcall[c].pc = "cool"]
     ELSE nextBatch(P1, c)

settledSome(call, batch) ==
  \E j \in 1..Len(batch) : call.outs[batch[j]].k # "none"

settledAll(call, batch) ==
  \A j \in 1..Len(batch) : call.outs[batch[j]].k # "none"

setWrapper(P, c, q, k, v) ==
  LET P1 == IF k = "err" THEN [P EXCEPT !.pcall[c].errors = Append(@, v)]
                         ELSE P
      call == P1.pcall[c]
  IN IF settledAll(call, Slice(call.i, maxBatchSize, call.len))
     THEN afterBatch(P1, c)
     ELSE P1

(* ---- settling of one ParallelQuery.execute, and what awaits it ---- *)

RECURSIVE settle(_, _, _, _, _)

RECURSIVE settleReplays(_, _, _)
settleReplays(P, c, qs) ==
  IF qs = <<>> THEN P
  ELSE LET q == Head(qs)
           a == P.act[c][q]
       IN settleReplays(
            IF a.st = "replay"
            THEN settle(P, c, q,
                        IF a.lastError # NoVal THEN "err" ELSE "ok", a.val)
            ELSE P,
            c, Tail(qs))

(* batch.map(async query => ...): every execute() starts, then the replays *)
(* settle                                                                 *)
startBatch(P, c, batch) ==
  settleReplays(beginAll([P EXCEPT !.pcall[c].pc = "all"], c, batch),
                c, batch)

(* ---- Parallelizer.executeQueryBatch ---- *)

chunkSize == maxBatchSize * maxConcurrentBatches

batchWrapper(P, c, q, k, v) ==
  LET call == P.pcall[c]
      chunk == Slice(call.i, chunkSize, call.len)
      P1 == [P EXCEPT !.pcall[c].responses =
                        @ \o [j \in 1..Len(chunk) |-> call.outs[chunk[j]].v],
                      !.pcall[c].i = @ + chunkSize]
  IN IF k = "err"
     THEN finishCall(P, c, "throw", <<>>, <<v>>)
     ELSE IF ~settledAll(call, chunk)
     THEN P
     ELSE IF call.i + chunkSize < call.len
     THEN startBatch(P1, c, Slice(call.i + chunkSize, chunkSize, call.len))
     ELSE finishCall(P1, c, "return", P1.pcall[c].responses, <<>>)

settle(P, c, q, k, v) ==
  LET P1 == [observeQuery(P, c, q, k, v)
               EXCEPT !.act[c][q] = Idle,
                      !.pcall[c].outs[q] = [k |-> k, v |-> v]]
      kind == P.pcall[c].kind
  IN CASE kind = "execute" ->
            IF k = "ok" THEN finishCall(P1, c, "return", <<v>>, <<>>)
                        ELSE finishCall(P1, c, "throw", <<>>, <<v>>)
       [] kind \in {"set", "queries"} -> setWrapper(P1, c, q, k, v)
       [] kind = "batch" -> batchWrapper(P1, c, q, k, v)
       [] kind = "orphans" ->
            IF Running(P1, c) = {} THEN [P1 EXCEPT !.pcall[c] = NoCall]
            ELSE [P1 EXCEPT !.pcall[c].outs[q] = NoOutcome]

(* the catch block of an attempt and the code after the loop *)
queryFailed(P, c, q, e) ==
  IF P.act[c][q].attempt < retryAttempts
  THEN [P EXCEPT !.act[c][q].st = "sleep", !.act[c][q].lastError = e]
  ELSE settle([P EXCEPT !.pq[q].executed = TRUE, !.pq[q].error = e],
              c, q, "err", e)

validateArrayOnly(out) ==
  IF out.k = "array" /\ \E i \in DOMAIN out.st : out.st[i] < 0
  THEN "Status"
  ELSE "none"

(* the validation of a decoded response: the error it raises, if any *)
validate(out) ==
  IF out.k = "null"
  THEN "Empty"
  ELSE IF \E i \in DOMAIN out.st : out.st[i] < 0
  THEN "Status"
  ELSE "none"

(* the continuation of execute() when client.query has settled *)
queryReplied(P, c, q, out) ==
  LET id == [q |-> q, n |-> P.act[c][q].n]
  IN CASE out.k = "throw" ->
            queryFailed(P, c, q, id)
       [] out.k = "null" ->
            queryFailed([P EXCEPT !.pq[q].response = NoVal], c, q, id)
       [] out.k \notin {"throw", "null"} /\ validate(out) # "none" ->
            queryFailed([P EXCEPT !.pq[q].response = id], c, q, id)
       [] OTHER ->
            settle([P EXCEPT !.pq[q].response = id, !.pq[q].executed = TRUE],
                   c, q, "ok", id)

(* ---- Parallelizer guard ---- *)

neverRejected(P) == FALSE

rejected(P) == P.isExecuting

reject(P, kind) ==
  [P EXCEPT !.cev = @ \cup
      {[c |-> 0, kind |-> kind, k |-> "busy", len |-> 0,
        responses |-> <<>>, errors |-> <<>>,
        outs |-> [q \in Queries |-> NoOutcome]]}]

(* ---- actions ---- *)

FreeSlot == {c \in 1..plimits.callers : pcall[c].kind = "none"}
Quiet == \A c \in CallIds : pcall[c].kind = "none"
NoPrivateObjects == \A c \in CallIds : pcall[c].kind # "queries"

Enter(c, kind, len) ==
  [PackPar EXCEPT !.entries = @ + 1,
                  !.pcall[c] = [NoCall EXCEPT !.kind = kind, !.len = len]]

CallExecute(q) ==
  /\ entries < plimits.entries
  /\ FreeSlot # {}
  /\ NoPrivateObjects
  /\ LET c == Min(FreeSlot)
     IN DonePar(startBatch([Enter(c, "execute", 1)
                              EXCEPT !.pcall[c].i = q - 1],
                           c, <<q>>))

CallSetExecute(len) ==
  /\ entries < plimits.entries
  /\ FreeSlot # {}
  /\ NoPrivateObjects
  /\ LET c == Min(FreeSlot)
     IN DonePar(startBatch(Enter(c, "set", len), c,
                           Slice(0, maxBatchSize, len)))

CallExecuteQueries(len) ==
  /\ entries < plimits.entries
  /\ IF rejected(PackPar)
     THEN DonePar(reject([PackPar EXCEPT !.entries = @ + 1], "queries"))
     ELSE /\ Quiet
          /\ LET P == [Enter(1, "queries", len)
                         EXCEPT !.isExecuting = TRUE,
                                !.pq = [q \in Queries |-> NewQuery],
                                !.first = [q \in Queries |-> NoOutcome],
                                !.engineCalls = [q \in Queries |-> 0]]
             IN DonePar(startBatch(P, 1, Slice(0, maxBatchSize, len)))

CallExecuteQueryBatch(len) ==
  /\ entries < plimits.entries
  /\ IF rejected(PackPar)
     THEN DonePar(reject([PackPar EXCEPT !.entries = @ + 1], "batch"))
     ELSE /\ FreeSlot # {}
          /\ LET c == Min(FreeSlot)
             IN DonePar(startBatch([Enter(c, "batch", len)
                                      EXCEPT !.isExecuting = TRUE],
                                   c, Slice(0, chunkSize, len)))

EngineReplies(c, q, out) ==
  /\ act[c][q].st = "query"
  /\ DonePar(queryReplied(PackPar, c, q, out))

RetryTimer(c, q) ==
  /\ act[c][q].st = "sleep"
  /\ DonePar(clientQuery(PackPar, c, q, act[c][q].attempt + 1))

GapTimer(c) ==
  /\ pcall[c].pc = "gap"
  /\ DonePar(startBatch(PackPar, c,
                        Slice(pcall[c].i, maxBatchSize, pcall[c].len)))

CoolTimer(c) ==
  /\ pcall[c].pc = "cool"
  /\ DonePar(nextBatch(PackPar, c))

(* One caller making MaxEntries calls in turn over MaxQueries queries, or *)
(* MaxParCalls callers at once over ConcQueries queries.                  *)
ParBudgets ==
  {[callers |-> 1, queries |-> MaxQueries, entries |-> MaxEntries],
   [callers |-> MaxParCalls, queries |-> ConcQueries,
    entries |-> MaxEntries]}

InitParallel ==
  /\ pool = [k \in Keys |-> <<>>]
  /\ sock = [s \in 1..MaxSockets |-> "unused"]
  /\ wire = [s \in 1..MaxSockets |-> <<>>]
  /\ now = 0
  /\ session = NoSession
  /\ lockHolder = NoTask
  /\ lockQueue = <<>>
  /\ socket = [c \in Clients |-> NoSocket]
  /\ connected = [c \in Clients |-> FALSE]
  /\ authenticated = [c \in Clients |-> FALSE]
  /\ shouldAuthenticate = [c \in Clients |-> FALSE]
  /\ queryComplete = [c \in Clients |-> FALSE]
  /\ useSsl = TRUE
  /\ stack = [t \in Tasks |-> <<>>]
  /\ ret = [t \in Tasks |-> NoRet]
  /\ faults = 0
  /\ calls = 0
  /\ expiries = 0
  /\ poolOps = 0
  /\ cleanupInterval = TRUE
  /\ messageCache = [c \in Clients |-> NoCache]
  /\ authOn = [c \in Clients |-> NoSocket]
  /\ refreshes = 0
  /\ limits = PoolIdle
  /\ ev = {}
  /\ OneInstance
  /\ ClockAtRest
  /\ ParallelIdle
  /\ plimits \in ParBudgets
  /\ FramesAtRest

Given == 1..plimits.queries

NextParallel ==
  \/ \E q \in Given : CallExecute(q)
  \/ \E len \in Given : CallSetExecute(len)
  \/ \E len \in Given : CallExecuteQueries(len)
  \/ \E len \in Given : CallExecuteQueryBatch(len)
  \/ \E c \in CallIds, q \in Queries, out \in EngineOutcomes :
       EngineReplies(c, q, out)
  \/ \E c \in CallIds, q \in Queries : RetryTimer(c, q)
  \/ \E c \in CallIds : GapTimer(c)
  \/ \E c \in CallIds : CoolTimer(c)

SpecParallel == InitParallel /\ [][NextParallel]_vars

(* ======================= _recvMsg on the byte stream =================== *)
(* The frame reader of one _recvMsg call, byte by byte.  The peer writes  *)
(* frames (a 4-byte little-endian length, then the body) and possibly a   *)
(* stray byte; the transport hands them over in chunks cut anywhere.  The *)
(* stream is flowing: a chunk that arrives while no read listens is not   *)
(* kept.                                                                  *)

BodyBytes == {5, 6}
Bodies == UNION {[1..n -> BodyBytes] : n \in 0..MaxBody}
Strays == {<<>>, <<9>>}

Take(s, n) == SubSeq(s, 1, n)
Drop(s, n) == SubSeq(s, n + 1, Len(s))

writeUInt32LE(n) ==
  <<n % 256, (n \div 256) % 256, (n \div 65536) % 256,
    (n \div 16777216) % 256>>

readUInt32BE(b) == b[1] * 16777216 + b[2] * 65536 + b[3] * 256 + b[4]

readUInt32LE(b) == b[1] + b[2] * 256 + b[3] * 65536 + b[4] * 16777216

Frame(body) == writeUInt32LE(Len(body)) \o body

RECURSIVE Wire(_)
Wire(fs) == IF fs = <<>> THEN <<>> ELSE Frame(Head(fs)) \o Wire(Tail(fs))

otherThanFrames == <<clientVars, instanceVars, sessionVars, parallelVars>>

NoResult ==
  [k |-> "none", buf |-> <<>>, cause |-> "none", got |-> 0, dropped |-> 0,
   chunks |-> 0, len |-> -1, read |-> 0, connected |-> TRUE]

Pending(R, conn) == [rd |-> R, res |-> NoResult, connected |-> conn]

(* cleanup() and resolve / reject *)
Finish(R, k, buf, cause, got, dropped, conn) ==
  [rd |-> NoReader,
   res |-> [k |-> k, buf |-> buf, cause |-> cause, got |-> got,
            dropped |-> dropped, chunks |-> R.chunks,
            len |-> R.messageLength, read |-> R.bytesRead,
            connected |-> conn],
   connected |-> conn]

onData(R, chunk, conn) ==
  LET R0 == [R EXCEPT !.chunks = @ + 1, !.got = @ + Len(chunk)]
  IN IF R0.messageLength = -1
     THEN LET lb == R0.lengthBuffer \o chunk
              R1 == [R0 EXCEPT !.lengthBuffer = lb]
          IN IF Len(lb) >= prefixLength
             THEN LET len == readUInt32LE(lb)
                      extraData == Drop(lb, prefixLength)
                      bytesToCopy == IF Len(extraData) < len
                                     THEN Len(extraData) ELSE len
                      R2 == [R1 EXCEPT !.messageLength = len,
                                       !.messageBuffer =
                                          Take(extraData, bytesToCopy),
                                       !.bytesRead = bytesToCopy]
                  IN IF len = 0
                     THEN Finish(R2, "resolved", <<>>, "data", R2.got,
                                 Len(extraData), conn)
                     ELSE IF Len(lb) > prefixLength /\ bytesToCopy = len
                     THEN Finish(R2, "resolved", R2.messageBuffer, "data",
                                 R2.got, Len(extraData) - bytesToCopy, conn)
                     ELSE Pending(R2, conn)
             ELSE Pending(R1, conn)
     ELSE LET remainingBytes == R0.messageLength - R0.bytesRead
              bytesToCopy == IF Len(chunk) < remainingBytes
                             THEN Len(chunk) ELSE remainingBytes
              R1 == [R0 EXCEPT !.messageBuffer =
                                  @ \o Take(chunk, bytesToCopy),
                               !.bytesRead = @ + bytesToCopy]
          IN IF R1.bytesRead = R1.messageLength
             THEN Finish(R1, "resolved", R1.messageBuffer, "data", R1.got,
                         Len(chunk) - bytesToCopy, conn)
             ELSE IF R1.bytesRead > R1.messageLength
             THEN Finish(R1, "rejected", <<>>, "overflow", R1.got, 0, conn)
             ELSE Pending(R1, conn)

onError(R) == Finish(R, "rejected", <<>>, "error", R.got, 0, FALSE)

onEndLenient(R) == Finish(R, "null", <<>>, "end", R.got, 0, FALSE)

onEnd(R) ==
  IF R.messageLength = -1
  THEN IF Len(R.lengthBuffer) = 0
       THEN Finish(R, "null", <<>>, "end", R.got, 0, FALSE)
       ELSE Finish(R, "rejected", <<>>, "end", R.got, 0, FALSE)
  ELSE IF R.bytesRead < R.messageLength
  THEN Finish(R, "rejected", <<>>, "end", R.got, 0, FALSE)
  ELSE Finish(R, "resolved", R.messageBuffer, "end", R.got, 0, FALSE)

onClose(R, hadError) ==
  IF hadError
  THEN Finish(R, "rejected", <<>>, "close", R.got, 0, FALSE)
  ELSE onEnd(R)

(* the handler has run: the closure, the settled promise, this.connected *)
Handled(h) ==
  /\ reader' = h.rd
  /\ results' = IF h.res.k = "none" THEN results ELSE Append(results, h.res)
  /\ frConnected' = h.connected

RecvMsg ==
  /\ ~reader.listening
  /\ Len(results) < MaxReads
  /\ IF frSock # "open"
     THEN Handled(Finish(NoReader, "rejected", <<>>, "state", 0, 0, FALSE))
     ELSE Handled(Pending([NoReader EXCEPT !.listening = TRUE], frConnected))
  /\ UNCHANGED <<stream, sent, arrived, missed, frSock>>
  /\ UNCHANGED otherThanFrames

Data(n) ==
  /\ frSock = "open"
  /\ stream' = Drop(stream, n)
  /\ arrived' = arrived + n
  /\ IF reader.listening
     THEN /\ Handled(onData(reader, Take(stream, n), frConnected))
          /\ UNCHANGED missed
     ELSE /\ missed' = missed + n
          /\ UNCHANGED <<reader, results, frConnected>>
  /\ UNCHANGED <<sent, frSock>>
  /\ UNCHANGED otherThanFrames

Heard(h) ==
  IF reader.listening
  THEN Handled(h)
  ELSE UNCHANGED <<reader, results, frConnected>>

End ==
  /\ frSock = "open"
  /\ frSock' = "ended"
  /\ Heard(onEnd(reader))
  /\ UNCHANGED <<stream, sent, arrived, missed>>
  /\ UNCHANGED otherThanFrames

Close(hadError) ==
  /\ frSock \in {"open", "ended"}
  /\ frSock' = "closed"
  /\ Heard(onClose(reader, hadError))
  /\ UNCHANGED <<stream, sent, arrived, missed>>
  /\ UNCHANGED otherThanFrames

Error ==
  /\ frSock = "open"
  /\ frSock' = "errored"
  /\ Heard(onError(reader))
  /\ UNCHANGED <<stream, sent, arrived, missed>>
  /\ UNCHANGED otherThanFrames

ClientsAtRest ==
  /\ pool = [k \in Keys |-> <<>>]
  /\ sock = [s \in 1..MaxSockets |-> "unused"]
  /\ wire = [s \in 1..MaxSockets |-> <<>>]
  /\ now = 0
  /\ session = NoSession
  /\ lockHolder = NoTask
  /\ lockQueue = <<>>
  /\ socket = [c \in Clients |-> NoSocket]
  /\ connected = [c \in Clients |-> FALSE]
  /\ authenticated = [c \in Clients |-> FALSE]
  /\ shouldAuthenticate = [c \in Clients |-> FALSE]
  /\ queryComplete = [c \in Clients |-> FALSE]
  /\ useSsl = TRUE
  /\ stack = [t \in Tasks |-> <<>>]
  /\ ret = [t \in Tasks |-> NoRet]
  /\ faults = 0
  /\ calls = 0
  /\ expiries = 0
  /\ poolOps = 0
  /\ cleanupInterval = TRUE
  /\ messageCache = [c \in Clients |-> NoCache]
  /\ authOn = [c \in Clients |-> NoSocket]
  /\ refreshes = 0
  /\ limits = PoolIdle
  /\ ev = {}

FrameLists == {<<b>> : b \in Bodies} \cup (Bodies \X Bodies)

InitFrames ==
  /\ ClientsAtRest
  /\ OneInstance
  /\ ClockAtRest
  /\ ParallelAtRest
  /\ sent \in FrameLists
  /\ \E st \in Strays : stream = Wire(sent) \o st
  /\ arrived = 0
  /\ missed = 0
  /\ reader = NoReader
  /\ results = <<>>
  /\ frConnected = TRUE
  /\ frSock = "open"

NextFrames ==
  \/ RecvMsg
  \/ \E n \in 1..Len(stream) : Data(n)
  \/ End
  \/ \E hadError \in BOOLEAN : Close(hadError)
  \/ Error

SpecFrames == InitFrames /\ [][NextFrames]_vars

(* ======================= properties ==================================== *)

FramesOf(t) == {stack[t][i] : i \in 1..Len(stack[t])}

UsesTransport(t, s) ==
  /\ stack[t] # <<>>
  /\ TopFrame(t).pc \in {"send", "recv"}
  /\ TopFrame(t).s = s

InFlight(t) ==
  /\ stack[t] # <<>>
  /\ TopFrame(t).fn = "_query"
  /\ TopFrame(t).pc \in {"send", "recv"}

InSessionOp(t) ==
  \E f \in FramesOf(t) : f.fn \in {"_authenticate", "_refreshToken"}

Queued(t) == \E i \in 1..Len(lockQueue) : lockQueue[i] = t

(* C1: while a query attempt has its request in flight on a live          *)
(* transport, the transport's pool entry is busy and no other task sends  *)
(* or receives on that transport.                                         *)
ExclusiveOwnership ==
  \A t \in Tasks :
    (InFlight(t) /\ sock[TopFrame(t).s] = "open") =>
      LET s == TopFrame(t).s
          conns == pool[poolKey(TopFrame(t).c)]
      IN /\ \A i \in 1..Len(conns) : conns[i].socket = s => conns[i].busy
         /\ \A u \in Tasks \ {t} : ~UsesTransport(u, s)

(* C2: after every attempt of the retry loop, a complete attempt leaves   *)
(* its transport in the pool and not busy; a failed or incomplete attempt *)
(* leaves it out of the pool, destroyed, with the client's socket cleared.*)
AttemptRelease ==
  \A e \in ev :
    (e.type = "finally" /\ e.tr # NoSocket) =>
      IF e.done
      THEN e.inPool /\ ~e.busy
      ELSE ~e.inPool /\ e.dead /\ e.cleared

(* C3: a task runs _authenticate or _refreshToken only while it holds the *)
(* session mutex, so at most one task runs such an operation at a time.   *)
SessionMutualExclusion ==
  /\ \A t \in Tasks : InSessionOp(t) => lockHolder = t
  /\ \A t, u \in Tasks : (InSessionOp(t) /\ InSessionOp(u)) => t = u

SessionMutualExclusionWitness ==
  \E t, u \in Tasks :
    /\ t # u
    /\ InSessionOp(t)
    /\ Queued(u)
    /\ TopFrame(u).fn = "ensureAuthenticated"

(* C4: no task waits for the session mutex while holding it itself.       *)
NoReentrantAcquire ==
  \A t \in Tasks : ~(lockHolder = t /\ Queued(t))

(* C5: a RefreshToken request is written only while the shared session is *)
(* invalid and by the holder of the session mutex; so of the callers that *)
(* found the session invalid, those that get the mutex after the refresh  *)
(* has replaced it send no request of their own.                          *)
RefreshConvergence ==
  [][refreshes' # refreshes =>
       /\ refreshes' = refreshes + 1
       /\ session'.live /\ ~session'.isValid
       /\ \E t \in Tasks : lockHolder' = t /\ InSessionOp(t)']_vars

RefreshConvergenceWitness ==
  /\ refreshes = 1
  /\ session.live /\ session.isValid
  /\ \E t \in Tasks :
       /\ Awaits(t, "locked")
       /\ lockHolder = t
       /\ TopFrame(t).fn = "ensureAuthenticated"
       /\ authenticated[TopFrame(t).c]
       /\ ~shouldAuthenticate[TopFrame(t).c]

(* C6: once _refreshToken has seen a non-zero status and started the      *)
(* re-authentication, that re-authentication is able to run, so that the  *)
(* call can go on to raise Unauthorized: it is never parked behind the    *)
(* session mutex of its own task.                                         *)
RefreshFailureRaises ==
  \A t \in Tasks :
    (\E f \in FramesOf(t) : f.fn = "_refreshToken" /\ f.pc = "reauth") =>
      ~(TopFrame(t).fn = "authenticate" /\ TopFrame(t).pc = "queued"
        /\ lockHolder = t)

(* C7: a _query call makes at most maxRetries + 1 attempts, goes on after *)
(* no attempt that produced a response, and raises the last attempt's     *)
(* error when all attempts failed with an error.                          *)
RetryBound ==
  /\ \A t \in Tasks : \A f \in FramesOf(t) :
       f.fn = "_query" => (f.rc <= maxRetries /\ ~f.done)
  /\ \A e \in ev :
       e.type = "exit" =>
         /\ e.rc <= maxRetries
         /\ e.done => e.a = "return"
         /\ e.errs = maxRetries + 1 => (e.a = "throw" /\ e.b = e.err)

RetryBoundWitness ==
  \E e \in ev :
    e.type = "exit" /\ e.errs = maxRetries + 1 /\ e.a = "throw"

(* C8: a _query call never sleeps for a backoff after a response frame    *)
(* that could not be parsed.                                              *)
DecodeErrorsNotRetried ==
  \A t \in Tasks : \A f \in FramesOf(t) :
    f.fn = "_query" => ~(f.pc = "sleep" /\ f.err = "Parse")

(* C9, as stated: a null response frame always ends the call with the     *)
(* empty result, never with a retry.                                      *)
NullFrameIsResult ==
  \A e \in ev : e.type = "null" => e.a = "return"

(* C9, amended: a null response frame ends the call with the empty result *)
(* on the last attempt only; on an earlier attempt the call backs off and *)
(* makes another attempt. No error is raised either way.                  *)
NullFrameOutcome ==
  /\ \A e \in ev :
       e.type = "null" =>
         /\ e.rc = maxRetries => e.a = "return"
         /\ e.rc < maxRetries => e.a = "retry"
  /\ \A e \in ev :
       (e.type = "null" /\ e.a = "return") =>
         \E x \in ev : /\ x.type = "exit" /\ x.t = e.t
                        /\ x.a = "return" /\ x.b = "null"

NullFrameOutcomeWitness ==
  \E e \in ev : e.type = "null" /\ e.a = "return" /\ e.rc = maxRetries

(* C11: a pooled transport is reused only after a probe that was         *)
(* exchanged on that same transport and answered well.                    *)
ProbedBeforeReuse ==
  \A e \in ev :
    e.type = "reuse" =>
      \E p \in ev : /\ p.type = "probe" /\ p.t = e.t /\ p.tr = e.tr
                     /\ p.a = "true" /\ p.b = "candidate"

(* C12: all constructed clients read and write the same SharedData        *)
(* object: one session and one mutex per process.                         *)
OneSharedData ==
  \A c1, c2 \in Constructed : sharedData(c1) = sharedData(c2)

(* C13: Session.valid() is true at every age below ttl - offset seconds   *)
(* and false at every age equal to or above it.                           *)
ValidityWindow ==
  validCall.asked =>
    (validCall.result <=>
       validCall.age < (sessionTokenTtl - expiryOffset) * TicksPerSecond)

(* C14: once a ParallelQuery has finished, every execute() begun later    *)
(* makes no engine call and ends with the first outcome, response or      *)
(* error; hasExecuted() stays true.                                       *)
Memoized ==
  /\ \A e \in qev :
       e.after => /\ e.sent = 0
                  /\ e.k = e.first.k
                  /\ e.v = e.first.v
  /\ \A q \in Queries : first[q].k # "none" => pq[q].executed

(* the queries of a settled call that succeeded, in the order added *)
Successes(e) ==
  SelectSeq([j \in 1..e.len |-> j], LAMBDA q : e.outs[q].k = "ok")

SomeOk(e) == \E q \in 1..e.len : e.outs[q].k = "ok"
SomeErr(e) == \E q \in 1..e.len : e.outs[q].k = "err"
AllErr(e) == \A q \in 1..e.len : e.outs[q].k = "err"

NoSiblingAbort ==
  \A e \in cev :
    e.kind \in {"set", "queries", "batch"} /\ e.k # "busy" =>
      /\ \A q \in 1..e.len : e.outs[q].k # "none"
      /\ e.k = "throw" => ~SomeOk(e)

InFlightQueries(c) == {q \in Queries : act[c][q].st # "idle"}

(* C19: within one ParallelQuerySet.execute the queries in flight belong  *)
(* to the current batch, at most maxBatchSize of them; every query of an  *)
(* earlier batch has settled and no query of a later batch has started.   *)
BatchesDoNotOverlap ==
  \A c \in CallIds :
    pcall[c].kind \in {"set", "queries"} =>
      LET call == pcall[c]
          batch == Slice(call.i, maxBatchSize, call.len)
      IN /\ InFlightQueries(c) \subseteq {batch[j] : j \in 1..Len(batch)}
         /\ Cardinality(InFlightQueries(c)) <= maxBatchSize
         /\ call.pc # "all" => InFlightQueries(c) = {}
         /\ \A q \in 1..call.i : call.outs[q].k # "none"
         /\ \A q \in Queries :
              q > call.i + Len(batch) => call.outs[q].k = "none"

BatchesDoNotOverlapWitness ==
  \E c \in CallIds : /\ pcall[c].kind = "set"
                      /\ pcall[c].i > 0
                      /\ pcall[c].pc = "all"
                      /\ InFlightQueries(c) # {}

Parallelizing == {c \in CallIds : pcall[c].kind \in {"queries", "batch"}}

(* C20: at most one executeQueries / executeQueryBatch call is pending    *)
(* per Parallelizer and the flag is set exactly while one is; a call made *)
(* meanwhile is rejected, sends nothing and leaves the flag set; a call   *)
(* is rejected only while another is pending.                             *)
SingleFlightStep ==
  /\ Cardinality(Parallelizing') <= 1
  /\ isExecuting' <=> Parallelizing' # {}
  /\ \A e \in cev' :
       e.k = "busy" => /\ Parallelizing # {}
                       /\ isExecuting'
                       /\ engineCalls' = engineCalls
                       /\ act' = act
                       /\ pcall' = pcall

SingleFlight == [][SingleFlightStep]_vars

SingleFlightWitness ==
  \E e \in cev : e.k = "busy" /\ e.kind = "queries"

(* no other task has a call in progress *)
SoleCaller(t) == \A u \in Tasks \ {t} : stack[u] = <<>>

(* ----------------------- _renewSession -------------------------------- *)

(* C31: _renewSession makes at most 3 attempts, stops at the first that   *)
(* succeeds, raises at once an error that is not UnauthorizedException,   *)
(* and raises when all 3 attempts failed with UnauthorizedException       *)
RenewPolicy ==
  \A e \in ev :
    e.type = "renewed" =>
      /\ e.errs <= renewAttempts
      /\ e.a = "return" => e.b = "none"
      /\ (e.a = "throw" /\ e.b # "Unauthorized") => e.errs = e.rc + 1
      /\ (e.a = "throw" /\ e.b = "Unauthorized") => e.rc = renewAttempts

(* ----------------------- every query ends ----------------------------- *)

(* task t is parked in the queue of the session mutex, and the holder of  *)
(* the mutex is parked in that queue as well: the mutex is released when  *)
(* the holder's callback settles, which it cannot do while it waits       *)
ParkedForGood(t) ==
  /\ Queued(t)
  /\ lockHolder # NoTask
  /\ Queued(lockHolder)

(* C37: every call of query() eventually resolves or rejects, whatever    *)
(* the network and the server do: no call of query() ever waits for a     *)
(* mutex that cannot be released                                          *)
QueryEnds ==
  \A t \in Tasks :
    (stack[t] # <<>> /\ stack[t][1].fn = "query") => ~ParkedForGood(t)

(* ----------------------- the message cache ---------------------------- *)

(* C36: the request frame of every query(commands, blobs) holds exactly   *)
(* the blobs passed, also when an earlier query of the client had the     *)
(* same command text and session token with other blobs                   *)
FrameCarriesBlobs ==
  \A e \in ev : e.type = "frame" => (e.kind = e.err /\ e.b = e.a)

(* ----------------------- one response per query ----------------------- *)

(* the user queries that read the next response frame of transport s *)
UserReaders(s) == {t \in Listeners(Pack, s) : TopFrame(t).kind = "user"}

(* C35: with several queries in flight on one client, a response frame of *)
(* the server is handed to one query at most, the one whose request it    *)
(* answers                                                                *)
OwnResponse ==
  [][\A s \in DOMAIN sock :
       (ServerReply(s) /\ UserReaders(s) # {}) =>
          /\ Cardinality(UserReaders(s)) = 1
          /\ Head(wire[s]) = "user"]_vars

(* ----------------------- a successful connect ------------------------- *)

(* C39: whenever _connect returns without error the client's transport is *)
(* not destroyed, is an entry of the list of the client's key and is      *)
(* marked busy, also when that list already held maxPoolSize entries      *)
ConnectYieldsPooledBusy ==
  \A e \in ev :
    e.type = "connected" =>
      /\ e.tr # NoSocket
      /\ ~e.dead
      /\ e.inPool
      /\ e.busy

(* ----------------------- authenticated and the session ----------------- *)

(* C38: in every reachable state a client whose authenticated flag is set *)
(* finds a session in the shared data, whatever this client, another      *)
(* client or the pool did before                                          *)
AuthenticatedHasSession ==
  \A c \in Clients : authenticated[c] => session.live

(* ----------------------- ParallelQuery.execute ------------------------ *)

(* the engine raised, or a command of its response has a negative status *)
Refused(out) == out.k = "throw" \/ \E i \in DOMAIN out.st : out.st[i] < 0

(* the attempt of call c for query q that this step ends has failed: it   *)
(* is tried again after a pause, or, when it was the last one, execute()  *)
(* has raised the error of this attempt and the object remembers it       *)
AttemptFailed(c, q) ==
  LET id == [q |-> q, n |-> act[c][q].n]
  IN IF act[c][q].attempt < retryAttempts
     THEN /\ act'[c][q].st = "sleep"
          /\ qev' = {}
          /\ engineCalls'[q] = engineCalls[q]
     ELSE /\ act'[c][q].st = "idle"
          /\ pq'[q].executed
          /\ pq'[q].error = id
          /\ pq'[q].error # NoVal
          /\ \E e \in qev' : e.c = c /\ e.q = q /\ e.k = "err" /\ e.v = id

(* execute() has returned the response of this attempt *)
AttemptSucceeded(c, q) ==
  LET id == [q |-> q, n |-> act[c][q].n]
  IN /\ act'[c][q].st = "idle"
     /\ pq'[q].executed
     /\ pq'[q].response = id
     /\ engineCalls'[q] = engineCalls[q]
     /\ \E e \in qev' : e.c = c /\ e.q = q /\ e.k = "ok" /\ e.v = id

EmptyResultSucceeds ==
  [][\A c \in CallIds, q \in Queries, out \in EngineOutcomes :
       (EngineReplies(c, q, out) /\ ~Refused(out)) =>
          /\ act'[c][q].st = "idle"
          /\ pq'[q].executed
          /\ \E e \in qev' : e.c = c /\ e.q = q /\ e.k = "ok"]_vars

(* ----------------------- authenticate before query --------------------- *)

(* C33: the frame of a user query is sent only after an Authenticate      *)
(* exchange of the client was accepted since the client's most recent     *)
(* successful connect, also when that connect was a reconnect made inside *)
(* the retry loop                                                         *)
AuthenticateBeforeQuery ==
  \A e \in ev :
    e.type = "request" => e.authOn # NoSocket

(* ----------------------- getConnection -------------------------------- *)

(* entry i of key k's list can be handed out *)
Free(k, i) ==
  /\ ~pool[k][i].busy
  /\ sock[pool[k][i].socket] \in {"connecting", "open"}

(* the lookup of key k returned the first entry of k's list that can be   *)
(* handed out, or nothing when there is none, and left the pool as it was *)
FirstFree(k) ==
  /\ pool' = pool
  /\ sock' = sock
  /\ \A e \in ev' :
       /\ e.type = "got"
       /\ e.a = k
       /\ IF \E i \in 1..Len(pool[k]) : Free(k, i)
          THEN \E i \in 1..Len(pool[k]) :
                 /\ Free(k, i)
                 /\ \A j \in 1..(i - 1) : ~Free(k, j)
                 /\ e.tr = pool[k][i].socket
                 /\ \A o \in Keys \ {k} : IndexOf(pool[o], e.tr) = 0
          ELSE e.tr = NoSocket

(* C32: getConnection(key) returns the first entry, in insertion order,   *)
(* of that key's list that is not busy and whose transport is writable    *)
(* and not destroyed, or nothing; never a busy entry, never an entry of   *)
(* another key, and the pool is left unchanged                            *)
GetConnectionFirstFree == [][\A k \in Keys : PoolGet(k) => FirstFree(k)]_vars

(* a lookup that skipped a busy entry and a closed one *)
GetConnectionFirstFreeWitness ==
  \E e \in ev :
    /\ e.type = "got"
    /\ e.tr # NoSocket
    /\ IndexOf(pool[e.a], e.tr) = 3
    /\ pool[e.a][1].busy
    /\ sock[pool[e.a][2].socket] = "closed"
    /\ \E o \in Keys \ {e.a} : pool[o] # <<>>

(* ----------------------- the frame reader ------------------------------ *)

(* every byte that arrived, arrived while a read was listening *)
AllHeard == missed = 0

FirstFrameArrived == arrived >= prefixLength + Len(sent[1])

(* C21: once the bytes of a frame have all arrived, however they were cut *)
(* into chunks, the read of that frame has resolved with exactly its body *)
FrameReassembled ==
  (AllHeard /\ FirstFrameArrived) =>
    /\ Len(results) >= 1
    /\ results[1].k = "resolved"
    /\ results[1].buf = sent[1]

(* a frame of the longest body, put together from one-byte pieces and a  *)
(* chunk that carries the end of the prefix with the start of the body   *)
FrameReassembledWitness ==
  /\ AllHeard
  /\ Len(results) >= 1
  /\ results[1].k = "resolved"
  /\ results[1].buf = sent[1]
  /\ Len(sent[1]) = MaxBody
  /\ results[1].chunks >= 3
  /\ results[1].dropped = 0

(* C22: when both frames have arrived while a read was listening and a   *)
(* second read was made on the open stream, that read has resolved with  *)
(* the second frame: the bytes that shared a chunk with the end of the   *)
(* first frame are the start of the second                               *)
NextFrameDelivered ==
  (/\ Len(sent) = 2
   /\ AllHeard
   /\ arrived >= Len(Wire(sent))
   /\ \/ reader.listening
      \/ Len(results) = 2 /\ results[2].cause # "state") =>
    /\ Len(results) = 2
    /\ results[2].k = "resolved"
    /\ results[2].buf = sent[2]

(* C23: a read that was handed more body bytes than its prefix declared  *)
(* is rejected                                                           *)
OverflowRejects ==
  \A i \in 1..Len(results) :
    results[i].dropped > 0 => results[i].k = "rejected"

(* C24: a read settled by the close of the stream: null when nothing had *)
(* been received, an error when the close came inside the prefix or      *)
(* inside the body; it is settled once and the client is not connected   *)
CloseOutcomes ==
  /\ \A i \in 1..Len(results) :
       results[i].cause = "end" =>
         /\ ~results[i].connected
         /\ results[i].got = 0 => results[i].k = "null"
         /\ results[i].got \in 1..(prefixLength - 1) =>
              results[i].k = "rejected"
         /\ (results[i].len # -1 /\ results[i].read < results[i].len) =>
              results[i].k = "rejected"
  /\ frSock # "open" => ~reader.listening

CloseOutcomesWitness ==
  /\ Len(results) = 2
  /\ results[1].k = "resolved"
  /\ results[2].cause = "end"
  /\ results[2].got \in 1..(prefixLength - 1)
  /\ results[2].k = "rejected"
  /\ ~frConnected

(* C25: a handshake reply naming another mode fails the connect with the *)
(* protocol-rejected error, which is not the error of a malformed reply, *)
(* and the transport is destroyed; a reply that differs in the version   *)
(* only does not fail the connect                                        *)
HandshakeVerdict ==
  \A e \in ev :
    e.type = "handshake" =>
      /\ e.a = "hs_mode" =>
           (e.b = "ProtocolRejected" /\ sock[e.tr] \in {"reset", "destroyed"})
      /\ e.a = "hs_bad" =>
           (e.b = "InvalidHandshake" /\ sock[e.tr] \in {"reset", "destroyed"})
      /\ e.a = "hs_version" => e.b = "none"

(* C26: when connect rejects, the client has no transport and is neither *)
(* connected nor authenticated, and the transport that was being opened  *)
(* is destroyed and not in the pool                                      *)
FailedConnectIsClean ==
  \A e \in ev :
    e.type = "connectFailed" =>
      /\ e.cleared
      /\ ~e.connected
      /\ ~e.authenticated
      /\ e.dead
      /\ ~e.inPool

(* the entries one sweep takes out: idle for longer than maxIdleTime and *)
(* not busy, or with a transport that is not writable or is destroyed    *)
Expired(conn) ==
  \/ ~conn.busy /\ now - conn.lastUsed > maxIdleTime
  \/ sock[conn.socket] # "open"

SweepExact ==
  \A k \in Keys :
    /\ pool'[k] = SelectSeq(pool[k], LAMBDA conn : ~Expired(conn))
    /\ \A i \in 1..Len(pool[k]) :
         IF Expired(pool[k][i])
         THEN sock'[pool[k][i].socket] # "open"
         ELSE sock'[pool[k][i].socket] = "open"

(* C27: one sweep removes and destroys exactly the expired entries and   *)
(* leaves every other entry as it was, a busy entry with a usable        *)
(* transport among them                                                  *)
IdleSweep == [][PoolCleanup => SweepExact]_vars

(* after a sweep: an idle entry is gone and destroyed, an older busy one *)
(* is still there                                                        *)
IdleSweepWitness ==
  /\ now > maxIdleTime
  /\ \E k \in Keys :
       /\ Len(pool[k]) = 1
       /\ pool[k][1].busy
       /\ now - pool[k][1].lastUsed > maxIdleTime
       /\ sock[pool[k][1].socket] = "open"
  /\ \E s \in DOMAIN sock : sock[s] = "destroyed"

(* C28: destroy finishes while holding the session mutex, with the       *)
(* client's transport out of the pool and closed, no transport, not      *)
(* connected, not authenticated and no shared session; a client used by  *)
(* one caller sends a request only when connected and authenticated, so  *)
(* a query after destroy connects and authenticates first                *)
DestroyResets ==
  \A e \in ev :
    /\ e.type = "destroyed" =>
         /\ e.held
         /\ e.cleared /\ ~e.connected /\ ~e.authenticated /\ ~e.live
         /\ e.tr # NoSocket => (~e.inPool /\ sock[e.tr] # "open")
    /\ (e.type = "request" /\ faults = 0 /\ SoleCaller(e.t)) =>
         /\ e.connected /\ e.authenticated
         /\ e.tr # NoSocket /\ ~e.dead

(* the status of an Authenticate reply read under ensureAuthenticated *)
StatusRead(v) ==
  {e \in ev : e.type = "status" /\ e.a = v /\ e.b = "ensureAuthenticated"}

AuthenticateOutcomeNow ==
  /\ \A e \in StatusRead("auth_fail") :
       \E x \in ev :
         /\ x.type = "ensured" /\ x.t = e.t
         /\ x.a = "throw" /\ x.b = "AuthFail"
         /\ ~x.authenticated /\ x.should
         /\ x.live = e.live
  /\ \A e \in StatusRead("auth_ok") :
       \E x \in ev :
         /\ x.type = "ensured" /\ x.t = e.t
         /\ x.a = "return"
         /\ x.authenticated /\ ~x.should
         /\ x.live

SessionKeptOnFailure ==
  (\E t \in Tasks :
     /\ stack[t] # <<>>
     /\ TopFrame(t).fn = "_query" /\ TopFrame(t).kind = "auth"
     /\ TopFrame(t).pc = "recv"
     /\ \E e \in ev' : e.type = "status" /\ e.a = "auth_fail" /\ e.t = t)
    => session' = session

(* C30: a non-zero Authenticate status makes ensureAuthenticated reject   *)
(* with the server's message, the shared session as it was, the client   *)
(* not authenticated and due to authenticate; status zero stores a new   *)
(* session and leaves the client authenticated                           *)
AuthenticateOutcome == []AuthenticateOutcomeNow /\ [][SessionKeptOnFailure]_vars

AuthenticateOutcomeWitness ==
  /\ StatusRead("auth_fail") # {}
  /\ session.live
  /\ \E x \in ev :
       /\ x.type = "ensured"
       /\ x.a = "throw" /\ x.b = "AuthFail"
       /\ ~x.authenticated /\ x.should

TornDown ==
  /\ \A s \in Pooled(Pack) : sock'[s] # "open"
  /\ \A k \in Keys : pool'[k] = <<>>
  /\ ~cleanupInterval'
  /\ session' = NoSession

(* C29: ConnectionPool.destroy closes every pooled transport, busy or    *)
(* not, leaves the pool without entries, stops the sweep timer and       *)
(* clears the shared session                                             *)
PoolTeardown == [][PoolDestroy => TornDown]_vars

(* a pool torn down after it was used: the timer is stopped by no other  *)
(* operation                                                             *)
PoolTeardownWitness ==
  /\ ~cleanupInterval
  /\ poolOps > 0
  /\ \A k \in Keys : pool[k] = <<>>
  /\ \E s \in DOMAIN sock : sock[s] = "destroyed"
  /\ session = NoSession

(* a step in which transport s was offered and no list changed *)
OfferedToFull(s) ==
  /\ sock[s] = "unused"
  /\ sock'[s] # "unused"
  /\ pool' = pool

(* C10: no key's list ever holds more than maxPoolSize entries, and a     *)
(* transport offered to a key whose list is full is destroyed while the   *)
(* lists and every other transport stay as they were.                     *)
PoolCapacity ==
  /\ [](\A k \in Keys : Len(pool[k]) <= maxPoolSize)
  /\ [][\A s \in DOMAIN sock :
          OfferedToFull(s) =>
            /\ \E k \in Keys : Len(pool[k]) = maxPoolSize
            /\ sock'[s] = "destroyed"
            /\ \A o \in DOMAIN sock \ {s} : sock'[o] = sock[o]]_vars

PoolCapacityWitness ==
  /\ Len(pool["k1"]) = maxPoolSize
  /\ \A i \in 1..maxPoolSize : sock[pool["k1"][i].socket] = "open"
  /\ pool["k2"] = <<>>
  /\ poolOps = 0
  /\ cleanupInterval = TRUE
  /\ \E s \in DOMAIN sock : sock[s] = "destroyed"

====
